---- MODULE Spec2Model ----
(***************************************************************************)
(* Model of the author-collector storage engine (storage/sqlite.py), the   *)
(* URL canonicalizer (quality/urlnorm.py), the evidence coverage step of   *)
(* the extractor (extractor/article.py) and the robots policy cache        *)
(* (fetcher/robots.py).                                                    *)
(*                                                                         *)
(* Tables are sets of rows (records); uuid4() is a counter; the wall clock *)
(* used for created_at/updated_at is a logical clock that ticks once per   *)
(* storage call.                                                           *)
(***************************************************************************)
EXTENDS Integers, Sequences, FiniteSets, TLC

VARIABLES
    articles,         \* table articles
    versions,         \* table versions
    evidence,         \* table evidence
    fetch_log,        \* table fetch_log
    merge_decisions,  \* table merge_decisions
    authors,          \* table authors (ids)
    run_log,          \* table run_log: run id -> row
    nextId,           \* next value returned by uuid4()
    now,              \* logical wall clock (_utc_now)
    lastOp,           \* the last storage call: its arguments and its result
    conn,             \* per-worker state of an upsert_article call in progress
    robotsCache,      \* RobotsTxtChecker._cache: host -> entry
    clock,            \* RobotsTxtChecker._clock()
    robotsRequests,   \* per host: number of session.get calls for robots.txt
    lastEval,         \* the last evaluate call: host, time, cache_hit, requests issued
    semaphore,        \* PolitenessController._semaphore: free global slots
    next_allowed,     \* PolitenessController._next_allowed: host -> time
    thr,              \* per thread: position in request_slot, host, multiplier
    lastGrant,        \* per host: time and multiplier of the last grant of wait_for_domain
    lastFetch,        \* the last fetch_url call: its URL and its result
    requested,        \* every URL a session was asked for, with the session asked
    pipe,             \* Pipeline.run: position in the loop, counters, attempts
    norm,             \* the last canonicalize_url call: its input and its output
    cand,             \* the last build_candidates call: its profiles and its output
    trunc,            \* the last extraction of a snippet and an evidence text from one text
    review,           \* review.json, the edits made to it and the summary of every review apply
    sync,             \* Pipeline.run over the SQLite store: feed, position, counters, finished runs
    exp,              \* the last export: the ids written to the output file and the article the error names
    rthr,             \* the worker threads inside RobotsTxtChecker.evaluate: position, url, fetched entry, result
    lastRelease,      \* per host, the clock time and the multiplier of the last request_slot that ended
    gate,             \* fetch_url callers at the politeness gate: semaphore, next_allowed, clock and each caller's position
    lastUrl           \* the last URL taken through fetch, parse, extract and store: the fetched document and the draft

dbVars == <<articles, versions, evidence, fetch_log, merge_decisions, authors, run_log>>
robotsVars == <<robotsCache, clock, robotsRequests, lastEval>>
polVars == <<semaphore, next_allowed, thr, lastGrant>>
fetchVars == <<lastFetch, requested>>
fetcherVars == <<polVars, fetchVars, pipe>>
calcVars == <<norm, cand, trunc, review, sync, exp, rthr, lastRelease, gate, lastUrl>>
notNorm == <<cand, trunc, review, sync, exp, rthr, lastRelease, gate, lastUrl>>
notCand == <<norm, trunc, review, sync, exp, rthr, lastRelease, gate, lastUrl>>
notTrunc == <<norm, cand, review, sync, exp, rthr, lastRelease, gate, lastUrl>>
notReview == <<norm, cand, trunc, sync, exp, rthr, lastRelease, gate, lastUrl>>
notSync == <<norm, cand, trunc, review, exp, rthr, lastRelease, gate, lastUrl>>
notExp == <<norm, cand, trunc, review, sync, rthr, lastRelease, gate, lastUrl>>
notRthr == <<norm, cand, trunc, review, sync, exp, lastRelease, gate, lastUrl>>
notLastRelease == <<norm, cand, trunc, review, sync, exp, rthr, gate, lastUrl>>
notGate == <<norm, cand, trunc, review, sync, exp, rthr, lastRelease, lastUrl>>
notLastUrl == <<norm, cand, trunc, review, sync, exp, rthr, lastRelease, gate>>
vars == <<articles, versions, evidence, fetch_log, merge_decisions, authors, run_log,
          nextId, now, lastOp, conn, robotsCache, clock, robotsRequests, lastEval,
          semaphore, next_allowed, thr, lastGrant, lastFetch, requested, pipe, norm, cand, trunc, review, sync, exp, rthr, lastRelease, gate, lastUrl>>

NULL == "NULL"

----------------------------------------------------------------------------
(* Bounds *)

\* number of storage calls in one behaviour
MaxOps == 3
\* number of evaluate calls in one behaviour of the robots cache
MaxEvaluations == 2
\* number of clock advances between two evaluate calls
MaxIdleTicks == 1
\* number of request_slot calls of one thread
MaxSlotCalls == 2
\* the politeness clock stops here
MaxPolTime == 10

RunIds == {"run-1", "run-2"}
SourceIds == {"rss:test", "rss:other"}

----------------------------------------------------------------------------
(* quality/urlnorm.py *)

\* str.lower() on the strings that occur in the modelled URLs
Lower(s) ==
    CASE s = "HTTP" -> "http"
      [] s = "HTTPS" -> "https"
      [] s = "EXAMPLE.com" -> "example.com"
      [] s = "/News/Item" -> "/news/item"
      [] s = "UTM_source" -> "utm_source"
      [] s = "SessionId" -> "sessionid"
      [] OTHER -> s

\* position of a string in lexicographic (code point) order, for sorting
StrRank(s) ==
    CASE s = "" -> 0
      [] s = "1" -> 1
      [] s = "2" -> 2
      [] s = "SessionId" -> 3
      [] s = "UTM_source" -> 4
      [] s = "a" -> 5
      [] s = "abc" -> 6
      [] s = "b" -> 7
      [] s = "feed" -> 8
      [] s = "sessionid" -> 9
      [] s = "utm_source" -> 10
      [] OTHER -> 11

_REMOVABLE_QUERY_PARAMS == {"session", "sessionid", "sid", "phpsessid", "jsessionid"}

\* key.lower().startswith("utm_")
StartsWithUtm(key) == Lower(key) \in {"utm_source", "utm_medium", "utm_campaign"}

PairLeq(p, q) ==
    \/ StrRank(p[1]) < StrRank(q[1])
    \/ StrRank(p[1]) = StrRank(q[1]) /\ StrRank(p[2]) <= StrRank(q[2])

RECURSIVE InsertSorted(_, _)
InsertSorted(p, s) ==
    IF s = <<>> THEN <<p>>
    ELSE IF ~PairLeq(Head(s), p)
         THEN <<p>> \o s
         ELSE <<Head(s)>> \o InsertSorted(p, Tail(s))

\* list.sort(key=lambda item: (item[0], item[1])) (stable)
RECURSIVE SortPairs(_)
SortPairs(s) ==
    IF s = <<>> THEN <<>>
    ELSE InsertSorted(s[Len(s)], SortPairs(SubSeq(s, 1, Len(s) - 1)))

RECURSIVE FilterPairs(_)
FilterPairs(s) ==
    IF s = <<>> THEN <<>>
    ELSE IF StartsWithUtm(Head(s)[1]) \/ Lower(Head(s)[1]) \in _REMOVABLE_QUERY_PARAMS
         THEN FilterPairs(Tail(s))
         ELSE <<Head(s)>> \o FilterPairs(Tail(s))

\* path.startswith("/")
StartsWithSlash(p) == p \in {"/", "/News/Item", "/news/item", "/new"}

\* "/" + path
PrependSlash(p) ==
    CASE p = "news/item" -> "/news/item"
      [] p = "new" -> "/new"
      [] OTHER -> p

\* A URL is the result of urlsplit: scheme, hostname (as written), port
\* (0 = none), path, query (list of key/value pairs) and fragment.
canonicalize_url(url) ==
    IF Lower(url.scheme) \notin {"http", "https"} THEN url
    ELSE
      LET hostname == Lower(url.host)
          default_port == IF Lower(url.scheme) = "http" THEN 80 ELSE 443
          port == IF url.port # 0 /\ url.port # default_port THEN url.port ELSE 0
          path0 == Lower(IF url.path = "" THEN "/" ELSE url.path)
          path == IF StartsWithSlash(path0) THEN path0 ELSE PrependSlash(path0)
      IN  [scheme |-> "https",
           host |-> hostname,
           port |-> port,
           path |-> path,
           query |-> SortPairs(FilterPairs(url.query)),
           fragment |-> ""]

----------------------------------------------------------------------------
(* storage/sqlite.py: helpers *)

Range(s) == {s[i] : i \in DOMAIN s}

\* extractor/article.py: article_id of evidence before it is stored
DRAFT_ARTICLE_ID == "__draft_article__"

\* datetime.isoformat()
IsoFormat(dt) ==
    CASE dt = "dt-0900" -> "2026-02-20T09:00:00+00:00"
      [] dt = "dt-1000" -> "2026-02-20T10:00:00+00:00"
      [] OTHER -> dt

\* datetime.fromisoformat(), preserving None
_parse_iso_datetime(value) ==
    CASE value = NULL -> NULL
      [] value = "2026-02-20T09:00:00+00:00" -> "dt-0900"
      [] value = "2026-02-20T10:00:00+00:00" -> "dt-1000"
      [] OTHER -> value

\* draft.published_at.isoformat() if draft.published_at else None
PublishedAtColumn(draft) ==
    IF draft.published_at = NULL THEN NULL ELSE IsoFormat(draft.published_at)

\* SHA-256 of the sorted-keys JSON payload; the digest is modelled by the
\* payload itself (no collisions).
_hash_article_fields(draft) ==
    [author_hint |-> draft.author_hint,
     published_at |-> PublishedAtColumn(draft),
     snippet |-> draft.snippet,
     title |-> draft.title]

\* The JSON snapshot keeps every evidence column except article_id.
_serialize_evidence_snapshot(evidence_list) ==
    [i \in DOMAIN evidence_list |->
        [id |-> evidence_list[i].id,
         claim_path |-> evidence_list[i].claim_path,
         evidence_type |-> evidence_list[i].evidence_type,
         extracted_text |-> evidence_list[i].extracted_text,
         run_id |-> evidence_list[i].run_id]]

_deserialize_evidence_snapshot_NoRun(raw_snapshot, article_id) ==
    [i \in DOMAIN raw_snapshot |->
        [id |-> raw_snapshot[i].id,
         article_id |-> article_id,
         claim_path |-> raw_snapshot[i].claim_path,
         evidence_type |-> raw_snapshot[i].evidence_type,
         extracted_text |-> raw_snapshot[i].extracted_text,
         run_id |-> "snapshot"]]

\* A NULL snapshot column and the snapshot "[]" both restore no rows; both are
\* the empty sequence here.
_deserialize_evidence_snapshot(raw_snapshot, article_id) ==
    [i \in DOMAIN raw_snapshot |->
        [id |-> raw_snapshot[i].id,
         article_id |-> article_id,
         claim_path |-> raw_snapshot[i].claim_path,
         evidence_type |-> raw_snapshot[i].evidence_type,
         extracted_text |-> raw_snapshot[i].extracted_text,
         run_id |-> IF raw_snapshot[i].run_id = NULL THEN "snapshot"
                    ELSE raw_snapshot[i].run_id]]

StampEvidence_OtherArticle(evidence_list, article_id, run_id) ==
    [i \in DOMAIN evidence_list |->
        [evidence_list[i] EXCEPT !.article_id = article_id + 1, !.run_id = run_id]]

StampEvidence_KeepRun(evidence_list, article_id, run_id) ==
    [i \in DOMAIN evidence_list |-> [evidence_list[i] EXCEPT !.article_id = article_id]]

\* item.model_copy(update={"article_id": article_id, "run_id": run_id})
StampEvidence(evidence_list, article_id, run_id) ==
    [i \in DOMAIN evidence_list |->
        [evidence_list[i] EXCEPT !.article_id = article_id, !.run_id = run_id]]

LookupExisting_IgnoreSource(canonical_url, source_id) ==
    LET rows == {a \in articles : a.canonical_url = canonical_url}
    IN  IF rows = {} THEN <<>>
        ELSE LET a == CHOOSE r \in rows : TRUE
             IN  <<[id |-> a.id, version |-> a.version]>>

\* fetchone(): <<>> is None, <<row>> is a row.
\* SELECT id, version FROM articles WHERE canonical_url = ? AND source_id = ?
LookupExisting(canonical_url, source_id) ==
    LET rows == {a \in articles : a.canonical_url = canonical_url /\ a.source_id = source_id}
    IN  IF rows = {} THEN <<>>
        ELSE LET a == CHOOSE r \in rows : TRUE
             IN  <<[id |-> a.id, version |-> a.version]>>

\* SELECT ... FROM versions WHERE article_id = ? ORDER BY version DESC LIMIT 1
LatestVersionRow(vs, article_id) ==
    LET rows == {v \in vs : v.article_id = article_id}
    IN  IF rows = {} THEN <<>>
        ELSE <<CHOOSE v \in rows : \A w \in rows : w.version <= v.version>>

LatestHash_Oldest(article_id) ==
    LET rows == {v \in versions : v.article_id = article_id}
    IN  IF rows = {} THEN <<>>
        ELSE <<(CHOOSE v \in rows : \A w \in rows : v.version <= w.version).content_hash>>

\* latest_hash: <<>> when the article has no version row
LatestHash(article_id) ==
    LET row == LatestVersionRow(versions, article_id)
    IN  IF row = <<>> THEN <<>> ELSE <<row[1].content_hash>>

\* _load_article: the article row together with its evidence rows
_load_article(arts, evs, article_id) ==
    [row |-> CHOOSE a \in arts : a.id = article_id,
     evidence |-> {e \in evs : e.article_id = article_id}]

\* schema (0001_init.sql): FOREIGN KEY(run_id) REFERENCES run_log
RunExists(run_id) == \E r \in run_log : r.id = run_id

\* schema (0001_init.sql): UNIQUE(canonical_url, source_id) on articles
DedupKeyTaken(canonical_url, source_id) ==
    \E a \in articles : a.canonical_url = canonical_url /\ a.source_id = source_id

\* schema: a version snapshot is keyed by (article_id, version)
VersionKeyTaken(article_id, version) ==
    \E v \in versions : v.article_id = article_id /\ v.version = version

----------------------------------------------------------------------------
(* Inputs *)

NoTime == 0

U1 == [scheme |-> "HTTP", host |-> "EXAMPLE.com", port |-> 80, path |-> "/News/Item",
       query |-> << <<"b", "2">>, <<"UTM_source", "feed">>, <<"a", "1">>, <<"SessionId", "abc">> >>,
       fragment |-> "frag"]
U2 == [scheme |-> "https", host |-> "example.com", port |-> 0, path |-> "/news/item",
       query |-> << <<"a", "1">>, <<"b", "2">> >>, fragment |-> ""]
U3 == [scheme |-> "https", host |-> "example.com", port |-> 0, path |-> "/new",
       query |-> <<>>, fragment |-> ""]

\* (canonical_url, source_id) of the drafts: U1 and U2 canonicalize to the same URL
DraftKeys == {<<U1, "rss:test">>, <<U2, "rss:test">>, <<U2, "rss:other">>}

Contents ==
    {[title |-> "Title V1", author_hint |-> "Jane Doe", published_at |-> "dt-0900",
      snippet |-> "Snippet V1"],
     [title |-> "Title V2", author_hint |-> NULL, published_at |-> "dt-1000",
      snippet |-> "Snippet V2"]}

Drafts ==
    {[canonical_url |-> k[1], source_id |-> k[2], title |-> c.title,
      author_hint |-> c.author_hint, published_at |-> c.published_at, snippet |-> c.snippet]
        : k \in DraftKeys, c \in Contents}

\* what the caller's create_evidence calls supply, before ids are generated
EvidenceShapes ==
    {<< [claim_path |-> "/title", evidence_type |-> "meta_tag",
         extracted_text |-> "Title V1", run_id |-> "run-1"] >>,
     << [claim_path |-> "/title", evidence_type |-> "json_ld",
         extracted_text |-> "Title V2", run_id |-> "run-2"],
        [claim_path |-> "/author_hint", evidence_type |-> "meta_tag",
         extracted_text |-> "Jane Doe", run_id |-> "run-2"] >>}

\* create_evidence: id=str(uuid4()), article_id as given by the caller
create_evidence(shape, firstId) ==
    [i \in DOMAIN shape |->
        [id |-> firstId + i - 1,
         article_id |-> DRAFT_ARTICLE_ID,
         claim_path |-> shape[i].claim_path,
         evidence_type |-> shape[i].evidence_type,
         extracted_text |-> shape[i].extracted_text,
         run_id |-> shape[i].run_id]]

----------------------------------------------------------------------------
(* storage/sqlite.py: upsert_article *)

Raised(exc) ==
    [raised |-> exc, articles |-> articles, versions |-> versions, evidence |-> evidence,
     article_id |-> 0, created |-> FALSE, updated |-> FALSE, ids |-> 0]

NextVersion_Skip(current_version) == current_version + 2

\* version = current_version + 1
NextVersion(current_version) == current_version + 1

\* The statements of upsert_article from the first INSERT/UPDATE to the commit,
\* given what the two SELECTs returned.  t is now.isoformat(); uuid and
\* uuid, uuid + 1 are the values uuid4() returns.
UpsertWrites(existing_row, latest_hash, draft, evidence_list, run_id, t, uuid) ==
    LET canonical_url == canonicalize_url(draft.canonical_url)
        content_hash == _hash_article_fields(draft)
    IN
    IF existing_row = <<>> THEN
        LET article_id == uuid
            version == 1
            persisted_evidence == StampEvidence(evidence_list, article_id, run_id)
            article_row ==
                [id |-> article_id, canonical_url |-> canonical_url,
                 source_id |-> draft.source_id, title |-> draft.title,
                 author_hint |-> draft.author_hint,
                 published_at |-> PublishedAtColumn(draft),
                 snippet |-> draft.snippet, version |-> version,
                 created_at |-> t, updated_at |-> t]
            version_row ==
                [id |-> uuid + 1, article_id |-> article_id, version |-> version,
                 content_hash |-> content_hash, title_snapshot |-> draft.title,
                 author_hint_snapshot |-> draft.author_hint,
                 published_at_snapshot |-> PublishedAtColumn(draft),
                 snippet_snapshot |-> draft.snippet,
                 evidence_snapshot |-> _serialize_evidence_snapshot(persisted_evidence),
                 created_at |-> t, run_id |-> run_id]
        IN  IF DedupKeyTaken(canonical_url, draft.source_id) \/ ~RunExists(run_id)
            THEN Raised("IntegrityError")
            ELSE [raised |-> "",
                  articles |-> articles \cup {article_row},
                  versions |-> versions \cup {version_row},
                  evidence |-> {e \in evidence : e.article_id # article_id}
                                 \cup Range(persisted_evidence),
                  article_id |-> article_id, created |-> TRUE, updated |-> FALSE,
                  ids |-> 2]
    ELSE
        LET article_id == existing_row[1].id
            current_version == existing_row[1].version
        IN
        IF latest_hash = <<content_hash>>
        THEN [raised |-> "", articles |-> articles, versions |-> versions,
              evidence |-> evidence, article_id |-> article_id, created |-> FALSE,
              updated |-> FALSE, ids |-> 0]
        ELSE
            LET version == NextVersion(current_version)
                persisted_evidence == StampEvidence(evidence_list, article_id, run_id)
                version_row ==
                    [id |-> uuid, article_id |-> article_id, version |-> version,
                     content_hash |-> content_hash, title_snapshot |-> draft.title,
                     author_hint_snapshot |-> draft.author_hint,
                     published_at_snapshot |-> PublishedAtColumn(draft),
                     snippet_snapshot |-> draft.snippet,
                     evidence_snapshot |-> _serialize_evidence_snapshot(persisted_evidence),
                     created_at |-> t, run_id |-> run_id]
            IN  IF \/ VersionKeyTaken(article_id, version)
                   \/ ~RunExists(run_id)
                   \/ ~(\E a \in articles : a.id = article_id)
                THEN Raised("IntegrityError")
                ELSE [raised |-> "",
                      articles |-> {IF a.id = article_id
                                    THEN [a EXCEPT !.title = draft.title,
                                                   !.author_hint = draft.author_hint,
                                                   !.published_at = PublishedAtColumn(draft),
                                                   !.snippet = draft.snippet,
                                                   !.version = version,
                                                   !.updated_at = t]
                                    ELSE a : a \in articles},
                      versions |-> versions \cup {version_row},
                      evidence |-> {e \in evidence : e.article_id # article_id}
                                     \cup Range(persisted_evidence),
                      article_id |-> article_id, created |-> FALSE, updated |-> TRUE,
                      ids |-> 1]

NoSummary ==
    [fetch_log_deleted |-> 0, evidence_deleted |-> 0, versions_deleted |-> 0,
     merge_decisions_deleted |-> 0, articles_deleted |-> 0, articles_reverted |-> 0]

\* upsert_article called by a single caller: both SELECTs and the writes see
\* the same database.  Callers create the run_log row of a run before they
\* write under its id (core/pipeline.py run, cli.py review apply).
UpsertArticle(draft, shape, run_id) ==
    /\ now < MaxOps
    /\ RunExists(run_id)
    /\ LET evidence_list == create_evidence(shape, nextId)
           canonical_url == canonicalize_url(draft.canonical_url)
           existing_row == LookupExisting(canonical_url, draft.source_id)
           latest_hash == IF existing_row = <<>> THEN <<>>
                          ELSE LatestHash(existing_row[1].id)
           out == UpsertWrites(existing_row, latest_hash, draft, evidence_list,
                               run_id, now + 1, nextId + Len(shape))
       IN  /\ articles' = out.articles
           /\ versions' = out.versions
           /\ evidence' = out.evidence
           /\ nextId' = nextId + Len(shape) + out.ids
           /\ lastOp' = [op |-> "upsert_article", run_id |-> run_id,
                         key |-> <<canonical_url, draft.source_id>>,
                         hash |-> <<_hash_article_fields(draft)>>,
                         supplied |-> Range(evidence_list),
                         article_id |-> out.article_id, created |-> out.created,
                         updated |-> out.updated, raised |-> out.raised,
                         summary |-> NoSummary]
    /\ now' = now + 1
    /\ UNCHANGED <<calcVars, fetch_log, merge_decisions, authors, run_log, conn, robotsVars, fetcherVars>>

----------------------------------------------------------------------------
(* storage/sqlite.py: rollback_run *)

DeleteRunRows_Others(table, run_id) == {r \in table : r.run_id = run_id}

DeleteRunRows_Keep(table, run_id) == table

DeleteRunRows_All(table, run_id) == {}

\* DELETE FROM <table> WHERE run_id = ?: the rows that stay
DeleteRunRows(table, run_id) == {r \in table : r.run_id # run_id}

CoalesceEndedAt_Now(ended_at, t) == t

\* ended_at = COALESCE(ended_at, ?)
CoalesceEndedAt(ended_at, t) == IF ended_at = NoTime THEN t ELSE ended_at

RollbackRun(run_id) ==
    /\ now < MaxOps
    /\ LET t == now + 1
           fetch_log_1 == DeleteRunRows(fetch_log, run_id)
           evidence_1 == DeleteRunRows(evidence, run_id)
           affected_article_ids == {v.article_id : v \in {w \in versions : w.run_id = run_id}}
           versions_1 == DeleteRunRows(versions, run_id)
           merge_decisions_1 == DeleteRunRows(merge_decisions, run_id)
           latest_remaining(article_id) == LatestVersionRow(versions_1, article_id)
           gone == {id \in affected_article_ids : latest_remaining(id) = <<>>}
           reverted == affected_article_ids \ gone
           restore(a) ==
               LET lr == latest_remaining(a.id)[1]
               IN  [a EXCEPT !.title = lr.title_snapshot,
                             !.author_hint = lr.author_hint_snapshot,
                             !.published_at = lr.published_at_snapshot,
                             !.snippet = lr.snippet_snapshot,
                             !.version = lr.version,
                             !.updated_at = t]
           restored_evidence(article_id) ==
               Range(_deserialize_evidence_snapshot(
                        latest_remaining(article_id)[1].evidence_snapshot, article_id))
       IN  /\ fetch_log' = fetch_log_1
           /\ versions' = versions_1
           /\ merge_decisions' = merge_decisions_1
           /\ articles' = {a \in articles : a.id \notin affected_article_ids}
                            \cup {restore(a) : a \in {b \in articles : b.id \in reverted}}
           /\ evidence' = {e \in evidence_1 : e.article_id \notin affected_article_ids}
                            \cup UNION {restored_evidence(id) : id \in reverted}
           /\ run_log' = {IF r.id = run_id
                          THEN [r EXCEPT !.status = "CANCELLED",
                                         !.ended_at = CoalesceEndedAt(r.ended_at, t),
                                         !.error_message = "Rolled back run"]
                          ELSE r : r \in run_log}
           /\ lastOp' = [op |-> "rollback_run", run_id |-> run_id, key |-> <<>>,
                         hash |-> <<>>, supplied |-> {},
                         article_id |-> 0, created |-> FALSE, updated |-> FALSE,
                         raised |-> "",
                         summary |->
                            [fetch_log_deleted |-> Cardinality(fetch_log \ fetch_log_1),
                             evidence_deleted |-> Cardinality(evidence \ evidence_1),
                             versions_deleted |-> Cardinality(versions \ versions_1),
                             merge_decisions_deleted |->
                                Cardinality(merge_decisions \ merge_decisions_1),
                             articles_deleted |->
                                Cardinality({a \in articles : a.id \in gone}),
                             articles_reverted |-> Cardinality(reverted)]]
    /\ now' = now + 1
    /\ UNCHANGED <<calcVars, authors, nextId, conn, robotsVars, fetcherVars>>

----------------------------------------------------------------------------
(* storage/sqlite.py: create_run_log, save_fetch_log, ensure_author,
   save_merge_decision *)

OtherOp(op, run_id, raised, inserted) ==
    [op |-> op, run_id |-> run_id, key |-> <<>>, hash |-> <<>>, supplied |-> {},
     article_id |-> 0, created |-> inserted, updated |-> FALSE, raised |-> raised,
     summary |-> NoSummary]

\* INSERT INTO run_log; RunLog.status defaults to RUNNING.  The row id is the
\* primary key; the caller creates each run once.
CreateRunLog(run_id) ==
    /\ ~RunExists(run_id)
    /\ run_log' = run_log \cup {[id |-> run_id, status |-> "RUNNING",
                                 ended_at |-> NoTime, error_message |-> NULL]}
    /\ lastOp' = OtherOp("create_run_log", run_id, "", TRUE)
    /\ UNCHANGED <<calcVars, articles, versions, evidence, fetch_log, merge_decisions, authors,
                   nextId, now, conn, robotsVars, fetcherVars>>

SaveFetchLog(run_id) ==
    /\ now < MaxOps
    /\ RunExists(run_id)
    /\ fetch_log' = fetch_log \cup {[id |-> nextId, run_id |-> run_id]}
    /\ lastOp' = OtherOp("save_fetch_log", run_id, "", TRUE)
    /\ nextId' = nextId + 1
    /\ now' = now + 1
    /\ UNCHANGED <<calcVars, articles, versions, evidence, merge_decisions, authors, run_log,
                   conn, robotsVars, fetcherVars>>

AuthorIds == {"author-a", "author-b"}
DecisionIds == {"decision-1"}

\* INSERT INTO authors ... ON CONFLICT(id) DO UPDATE
EnsureAuthor(author_id) ==
    /\ now < MaxOps
    /\ author_id \notin authors
    /\ authors' = authors \cup {author_id}
    /\ lastOp' = OtherOp("ensure_author", NULL, "", TRUE)
    /\ now' = now + 1
    /\ UNCHANGED <<calcVars, articles, versions, evidence, fetch_log, merge_decisions, run_log,
                   nextId, conn, robotsVars, fetcherVars>>

SaveMergeDecision(id, from_author_id, to_author_id, run_id) ==
    /\ now < MaxOps
    /\ RunExists(run_id)
    /\ IF from_author_id \notin authors \/ to_author_id \notin authors
       THEN /\ merge_decisions' = merge_decisions
            /\ lastOp' = OtherOp("save_merge_decision", run_id, "ValueError", FALSE)
       ELSE IF \E m \in merge_decisions : m.id = id
       THEN /\ merge_decisions' = merge_decisions
            /\ lastOp' = OtherOp("save_merge_decision", run_id, "", FALSE)
       ELSE /\ merge_decisions' = merge_decisions \cup
                    {[id |-> id, from_author_id |-> from_author_id,
                      to_author_id |-> to_author_id, run_id |-> run_id]}
            /\ lastOp' = OtherOp("save_merge_decision", run_id, "", TRUE)
    /\ now' = now + 1
    /\ UNCHANGED <<calcVars, articles, versions, evidence, fetch_log, authors, run_log,
                   nextId, conn, robotsVars, fetcherVars>>

----------------------------------------------------------------------------
(* extractor/article.py *)

SNIPPET_MAX_CHARS == 1500
EVIDENCE_SNIPPET_MAX_CHARS == 800

\* " ".join(text.split()) on the texts that occur in the modelled pages
NormalizeWs(text) ==
    CASE text = "  Title   V2 " -> "Title V2"
      [] text = "   " -> ""
      [] OTHER -> text

\* len(text) of the texts that occur in the modelled pages
StrLen(text) ==
    CASE text = "" -> 0
      [] text = "Body of 2000 chars" -> 2000
      [] text = "Body of 1000 chars" -> 1000
      [] OTHER -> 8

\* trimmed.rstrip() + ellipsis, for a text that is longer than max_chars
Ellipsized(text, max_chars) ==
    CASE text = "Body of 2000 chars" /\ max_chars = 1500 -> "Body cut at 1500 chars..."
      [] text = "Body of 2000 chars" /\ max_chars = 800 -> "Body cut at 800 chars..."
      [] text = "Body of 1000 chars" /\ max_chars = 800 -> "Body cut at 800 chars..."
      [] OTHER -> "..."

_truncate_with_ellipsis(text, max_chars) ==
    LET normalized == NormalizeWs(text)
    IN  IF StrLen(normalized) <= max_chars THEN normalized
        ELSE Ellipsized(normalized, max_chars)

\* datetime.fromisoformat(value.strip().replace("Z", "+00:00")), None on ValueError
_parse_datetime(value) ==
    CASE value = NULL -> NULL
      [] value = "" -> NULL
      [] value = "2026-02-20T09:00:00Z" -> "dt-0900"
      [] value = "2026-02-20T10:00:00+00:00" -> "dt-1000"
      [] OTHER -> NULL

_ARTICLE_TYPES == {"article", "newsarticle", "blogposting", "scholarlyarticle", "report"}

_score_jsonld_type(raw_type) == IF Lower(raw_type) \in _ARTICLE_TYPES THEN 1 ELSE 0

\* sorted(blocks, key=score, reverse=True)[0]: the first block of highest score
_pick_best_jsonld_block(blocks) ==
    IF blocks = <<>> THEN <<>>
    ELSE LET best == CHOOSE i \in DOMAIN blocks :
                        \A j \in DOMAIN blocks :
                            \/ _score_jsonld_type(blocks[j].type) < _score_jsonld_type(blocks[i].type)
                            \/ /\ _score_jsonld_type(blocks[j].type) = _score_jsonld_type(blocks[i].type)
                               /\ i <= j
         IN  <<blocks[best]>>

\* first key of keys whose meta value is non-empty: <<value, key>>, or <<>>
RECURSIVE _pick_meta(_, _)
_pick_meta(meta_tags, keys) ==
    IF keys = <<>> THEN <<>>
    ELSE IF Head(keys) \in DOMAIN meta_tags /\ meta_tags[Head(keys)] # ""
         THEN <<meta_tags[Head(keys)], Head(keys)>>
         ELSE _pick_meta(meta_tags, Tail(keys))

\* next((item for item in re.split(r",|\||\band\b", meta_author) if item.strip()), None)
FirstAuthorCandidate(meta_author) ==
    CASE meta_author = "Jane Doe, John Roe" -> "Jane Doe"
      [] meta_author = " , " -> NULL
      [] OTHER -> meta_author

CLAIM_PATH_BY_FIELD_NoSlash ==
    [title |-> "title", author_hint |-> "author_hint", published_at |-> "published_at"]

CLAIM_PATH_BY_FIELD ==
    [title |-> "/title", author_hint |-> "/author_hint", published_at |-> "/published_at"]

_build_evidence(claim_path, evidence_type, extracted_text, run_id) ==
    [claim_path |-> claim_path, evidence_type |-> evidence_type,
     extracted_text |-> _truncate_with_ellipsis(extracted_text, EVIDENCE_SNIPPET_MAX_CHARS),
     run_id |-> run_id]

HasEvidence(evidence_list, claim_path) ==
    \E i \in DOMAIN evidence_list : evidence_list[i].claim_path = claim_path

\* every non-null core field without evidence is set to None
enforce_evidence_coverage(draft, evidence_list) ==
    [draft EXCEPT
        !.title = IF draft.title # NULL /\ ~HasEvidence(evidence_list, CLAIM_PATH_BY_FIELD.title)
                  THEN NULL ELSE draft.title,
        !.author_hint = IF draft.author_hint # NULL
                           /\ ~HasEvidence(evidence_list, CLAIM_PATH_BY_FIELD.author_hint)
                        THEN NULL ELSE draft.author_hint,
        !.published_at = IF draft.published_at # NULL
                            /\ ~HasEvidence(evidence_list, CLAIM_PATH_BY_FIELD.published_at)
                         THEN NULL ELSE draft.published_at]

\* ArticleExtractStage.extract: <<draft, evidence shapes>>
extract(parsed, source_id, run_id) ==
    LET source_url == IF parsed.canonical_url # <<>> THEN parsed.canonical_url[1]
                      ELSE parsed.url
        block == _pick_best_jsonld_block(parsed.json_ld_blocks)
        json_ld_title ==
            IF block = <<>> THEN NULL
            ELSE LET raw_title == IF block[1].headline # NULL /\ block[1].headline # ""
                                  THEN block[1].headline ELSE block[1].name
                 IN  IF raw_title # NULL /\ NormalizeWs(raw_title) # ""
                     THEN NormalizeWs(raw_title) ELSE NULL
        meta_title == _pick_meta(parsed.meta_tags, <<"og:title", "twitter:title">>)
        fallback_title == IF parsed.title # NULL /\ parsed.title # "" THEN parsed.title
                          ELSE parsed.html_title
        title_part ==
            IF json_ld_title # NULL
            THEN <<json_ld_title,
                   <<_build_evidence(CLAIM_PATH_BY_FIELD.title, "json_ld", json_ld_title, run_id)>> >>
            ELSE IF meta_title # <<>>
            THEN <<NormalizeWs(meta_title[1]),
                   <<_build_evidence(CLAIM_PATH_BY_FIELD.title, "meta_tag", NormalizeWs(meta_title[1]), run_id)>> >>
            ELSE IF fallback_title # NULL /\ fallback_title # ""
            THEN <<NormalizeWs(fallback_title),
                   <<_build_evidence(CLAIM_PATH_BY_FIELD.title, "extracted", NormalizeWs(fallback_title), run_id)>> >>
            ELSE <<NULL, <<>> >>
        json_ld_author_names == IF block = <<>> THEN <<>> ELSE block[1].author
        meta_author == _pick_meta(parsed.meta_tags,
                                  <<"author", "article:author", "og:article:author">>)
        author_part ==
            IF json_ld_author_names # <<>>
            THEN <<json_ld_author_names[1],
                   <<_build_evidence(CLAIM_PATH_BY_FIELD.author_hint, "json_ld", json_ld_author_names[1], run_id)>> >>
            ELSE IF meta_author # <<>>
            THEN IF FirstAuthorCandidate(meta_author[1]) # NULL
                 THEN <<FirstAuthorCandidate(meta_author[1]),
                        <<_build_evidence(CLAIM_PATH_BY_FIELD.author_hint, "meta_tag", meta_author[1], run_id)>> >>
                 ELSE <<NULL, <<>> >>
            ELSE IF parsed.author_names # <<>>
            THEN <<parsed.author_names[1],
                   <<_build_evidence(CLAIM_PATH_BY_FIELD.author_hint, "extracted", parsed.author_names[1], run_id)>> >>
            ELSE <<NULL, <<>> >>
        json_ld_date ==
            IF block = <<>> THEN NULL
            ELSE _parse_datetime(IF block[1].datePublished # NULL /\ block[1].datePublished # ""
                                 THEN block[1].datePublished ELSE block[1].dateCreated)
        meta_date == _pick_meta(parsed.meta_tags,
                        <<"article:published_time", "pubdate", "publish-date", "dc.date", "date">>)
        meta_date_parsed == IF meta_date = <<>> THEN NULL ELSE _parse_datetime(meta_date[1])
        date_part ==
            IF json_ld_date # NULL
            THEN <<json_ld_date,
                   <<_build_evidence(CLAIM_PATH_BY_FIELD.published_at, "json_ld", IsoFormat(json_ld_date), run_id)>> >>
            ELSE IF meta_date_parsed # NULL
            THEN <<meta_date_parsed,
                   <<_build_evidence(CLAIM_PATH_BY_FIELD.published_at, "meta_tag", meta_date[1], run_id)>> >>
            ELSE IF parsed.date_published # NULL
            THEN <<parsed.date_published,
                   <<_build_evidence(CLAIM_PATH_BY_FIELD.published_at, "extracted",
                                     IsoFormat(parsed.date_published), run_id)>> >>
            ELSE <<NULL, <<>> >>
        snippet == IF parsed.text # NULL /\ parsed.text # ""
                   THEN _truncate_with_ellipsis(parsed.text, SNIPPET_MAX_CHARS) ELSE NULL
        evidence_list == title_part[2] \o author_part[2] \o date_part[2]
        draft == [canonical_url |-> source_url, source_id |-> source_id,
                  title |-> title_part[1], author_hint |-> author_part[1],
                  published_at |-> date_part[1], snippet |-> snippet]
    IN  <<enforce_evidence_coverage(draft, evidence_list), evidence_list>>

NoMeta == [k \in {} |-> ""]

\* Parsed pages handed to the extract stage
ParsedPages ==
    {[url |-> U1, canonical_url |-> <<U2>>, text |-> "Snippet V1", title |-> NULL,
      date_published |-> NULL, author_names |-> <<>>, html_title |-> "Html Title",
      meta_tags |-> [k \in {"og:title", "author", "article:published_time"} |->
                        CASE k = "og:title" -> "  Title   V2 "
                          [] k = "author" -> "Jane Doe, John Roe"
                          [] OTHER -> "2026-02-20T09:00:00Z"],
      json_ld_blocks |-> <<>>],
     [url |-> U1, canonical_url |-> <<>>, text |-> "Body of 2000 chars", title |-> NULL,
      date_published |-> "dt-1000", author_names |-> <<"Jane Doe">>, html_title |-> NULL,
      meta_tags |-> [k \in {"author", "date"} |->
                        IF k = "author" THEN " , " ELSE "yesterday"],
      json_ld_blocks |-> << [type |-> "WebSite", headline |-> NULL, name |-> "Site",
                             author |-> <<>>, datePublished |-> NULL, dateCreated |-> NULL],
                            [type |-> "NewsArticle", headline |-> "Title V1", name |-> NULL,
                             author |-> <<"Jane Doe">>, datePublished |-> "not a date",
                             dateCreated |-> NULL] >>],
     [url |-> U2, canonical_url |-> <<>>, text |-> NULL, title |-> NULL,
      date_published |-> NULL, author_names |-> <<>>, html_title |-> NULL,
      meta_tags |-> [k \in {"author", "og:title"} |->
                        IF k = "author" THEN " , " ELSE "   "],
      json_ld_blocks |-> <<>>],
     [url |-> U3, canonical_url |-> <<>>, text |-> NULL, title |-> "Title V1",
      date_published |-> NULL, author_names |-> <<>>, html_title |-> NULL,
      meta_tags |-> NoMeta, json_ld_blocks |-> <<>>]}

\* Pipeline steps extract -> store for one parsed page (core/pipeline.py):
\* the store stage receives exactly what the extract stage returned.
StoreExtracted(parsed, source_id, run_id) ==
    LET ex == extract(parsed, source_id, run_id)
    IN  UpsertArticle(ex[1], ex[2], run_id)

----------------------------------------------------------------------------
(* fetcher/robots.py *)

BLOCKED_BY_ROBOTS == "BLOCKED_BY_ROBOTS"
_ttl_success_seconds == 3600
_ttl_not_found_seconds == 14400
_ttl_5xx_seconds == 900
_ttl_timeout_seconds == 3600
max_redirects == 5

\* URLs handed to evaluate: scheme, netloc and path of urlparse(url)
RobotsUrls ==
    {[scheme |-> "https", netloc |-> "example.com", path |-> "/post-1"],
     [scheme |-> "http", netloc |-> "EXAMPLE.com", path |-> "/private/post"],
     [scheme |-> "https", netloc |-> "other.org", path |-> "/post-2"],
     [scheme |-> "", netloc |-> "", path |-> "/post-1"]}

\* the keys of _cache: parsed.netloc.lower()
RobotsDomains == {Lower(u.netloc) : u \in {v \in RobotsUrls : v.netloc # ""}}

\* What session.get(robots_url, allow_redirects=True) does: it returns a
\* response (status code, number of redirects followed, body) or raises.
\* via is the host the followed redirects led to.
RobotsOutcomes ==
    {[kind |-> "response", status_code |-> 200, history |-> 0, body |-> "Disallow: /private", via |-> ""],
     [kind |-> "response", status_code |-> 200, history |-> 1, body |-> "", via |-> "metadata.internal"],
     [kind |-> "response", status_code |-> 200, history |-> 6, body |-> "", via |-> "example.com"],
     [kind |-> "response", status_code |-> 404, history |-> 0, body |-> "", via |-> ""],
     [kind |-> "response", status_code |-> 503, history |-> 0, body |-> "", via |-> ""],
     [kind |-> "response", status_code |-> 403, history |-> 0, body |-> "", via |-> ""],
     [kind |-> "Timeout", status_code |-> 0, history |-> 0, body |-> "", via |-> ""],
     [kind |-> "TooManyRedirects", status_code |-> 0, history |-> 0, body |-> "", via |-> ""],
     [kind |-> "ConnectionError", status_code |-> 0, history |-> 0, body |-> "", via |-> ""]}

\* RobotFileParser.can_fetch(user_agent, url) for the modelled robots bodies
ParserCanFetch(body, path) == ~(body = "Disallow: /private" /\ path = "/private/post")

\* RobotsCacheEntry; status_code 0 is None, parser "" is None, warning "" is None
_fetch_entry(outcome, t) ==
    IF outcome.kind = "response" /\ outcome.history > max_redirects
    THEN [mode |-> "allow_all", expires_at |-> t + _ttl_timeout_seconds,
          delay_multiplier |-> 1, parser |-> <<>>, status_code |-> 0,
          warning |-> "redirect loop"]
    ELSE IF outcome.kind \in {"Timeout", "TooManyRedirects"}
    THEN [mode |-> "allow_all", expires_at |-> t + _ttl_timeout_seconds,
          delay_multiplier |-> 1, parser |-> <<>>, status_code |-> 0,
          warning |-> "timeout"]
    ELSE IF outcome.kind # "response"
    THEN [mode |-> "allow_with_caution", expires_at |-> t + _ttl_5xx_seconds,
          delay_multiplier |-> 2, parser |-> <<>>, status_code |-> 0,
          warning |-> "request error"]
    ELSE IF outcome.status_code = 200
    THEN [mode |-> "parsed", expires_at |-> t + _ttl_success_seconds,
          delay_multiplier |-> 1, parser |-> <<outcome.body>>,
          status_code |-> outcome.status_code, warning |-> ""]
    ELSE IF outcome.status_code = 404
    THEN [mode |-> "allow_all", expires_at |-> t + _ttl_not_found_seconds,
          delay_multiplier |-> 1, parser |-> <<>>, status_code |-> outcome.status_code,
          warning |-> "not found"]
    ELSE IF 500 <= outcome.status_code /\ outcome.status_code <= 599
    THEN [mode |-> "allow_with_caution", expires_at |-> t + _ttl_5xx_seconds,
          delay_multiplier |-> 2, parser |-> <<>>, status_code |-> outcome.status_code,
          warning |-> "server error"]
    ELSE [mode |-> "allow_all", expires_at |-> t + _ttl_timeout_seconds,
          delay_multiplier |-> 1, parser |-> <<>>, status_code |-> outcome.status_code,
          warning |-> "other status"]

CacheFresh_Inclusive(cached, t) == cached # <<>> /\ cached[1].expires_at >= t

\* if cached and cached.expires_at > now
CacheFresh(cached, t) == cached # <<>> /\ cached[1].expires_at > t

InvalidDecision ==
    [allowed |-> FALSE, error_code |-> BLOCKED_BY_ROBOTS, delay_multiplier |-> 1,
     mode |-> "invalid", warning |-> "missing domain", status_code |-> 0]

DecisionOf_NoSlowdown(entry, path) ==
    IF entry.parser # <<>> /\ ~ParserCanFetch(entry.parser[1], path)
    THEN [allowed |-> FALSE, error_code |-> BLOCKED_BY_ROBOTS, delay_multiplier |-> 1,
          mode |-> entry.mode, warning |-> entry.warning, status_code |-> entry.status_code]
    ELSE [allowed |-> TRUE, error_code |-> "", delay_multiplier |-> 1,
          mode |-> entry.mode, warning |-> entry.warning, status_code |-> entry.status_code]

\* the RobotsDecision evaluate builds from the entry
DecisionOf(entry, path) ==
    IF entry.mode \in {"allow_all", "allow_with_caution"}
    THEN [allowed |-> TRUE, error_code |-> "", delay_multiplier |-> entry.delay_multiplier,
          mode |-> entry.mode, warning |-> entry.warning, status_code |-> entry.status_code]
    ELSE IF entry.parser # <<>> /\ ~ParserCanFetch(entry.parser[1], path)
    THEN [allowed |-> FALSE, error_code |-> BLOCKED_BY_ROBOTS, delay_multiplier |-> 1,
          mode |-> entry.mode, warning |-> entry.warning, status_code |-> entry.status_code]
    ELSE [allowed |-> TRUE, error_code |-> "", delay_multiplier |-> entry.delay_multiplier,
          mode |-> entry.mode, warning |-> entry.warning, status_code |-> entry.status_code]

\* RobotsTxtChecker.evaluate with _get_or_fetch; outcome is what the session
\* does if it is asked for robots.txt.  fetched tells whether it was asked.
evaluate(url, outcome) ==
    LET domain == Lower(url.netloc)
    IN  IF domain = ""
        THEN [domain |-> domain, cache_hit |-> FALSE, fetched |-> FALSE, entry |-> <<>>,
              decision |-> InvalidDecision]
        ELSE IF CacheFresh(robotsCache[domain], clock)
        THEN [domain |-> domain, cache_hit |-> TRUE, fetched |-> FALSE,
              entry |-> robotsCache[domain],
              decision |-> DecisionOf(robotsCache[domain][1], url.path)]
        ELSE LET entry == _fetch_entry(outcome, clock)
             IN  [domain |-> domain, cache_hit |-> FALSE, fetched |-> TRUE,
                  entry |-> <<entry>>, decision |-> DecisionOf(entry, url.path)]

\* the state of the checker after an evaluate call
EvaluateEffect(url, outcome) ==
    LET ev == evaluate(url, outcome)
    IN  /\ lastEval' = [n |-> lastEval.n + 1, idle |-> 0, domain |-> ev.domain,
                        at |-> clock, cache_hit |-> ev.cache_hit, path |-> url.path,
                        outcome |-> IF ev.fetched THEN <<outcome>> ELSE <<>>,
                        decision |-> ev.decision]
        /\ IF ev.fetched
           THEN /\ robotsRequests' = [robotsRequests EXCEPT ![ev.domain] = @ + 1]
                /\ robotsCache' = [robotsCache EXCEPT ![ev.domain] = ev.entry]
           ELSE UNCHANGED <<calcVars, robotsCache, robotsRequests>>

Evaluate(url, outcome) ==
    /\ lastEval.n < MaxEvaluations
    /\ EvaluateEffect(url, outcome)
    /\ UNCHANGED <<calcVars, dbVars, nextId, now, lastOp, conn, clock, fetcherVars>>

TickSizes == {900, 3600, 14400}

\* the injected clock_fn moves on between two calls
AdvanceClock(d) ==
    /\ lastEval.idle < MaxIdleTicks
    /\ lastEval.n < MaxEvaluations
    /\ clock' = clock + d
    /\ lastEval' = [lastEval EXCEPT !.idle = @ + 1]
    /\ UNCHANGED <<calcVars, dbVars, nextId, now, lastOp, conn, robotsCache, robotsRequests, fetcherVars>>

----------------------------------------------------------------------------
(* fetcher/politeness.py *)

PER_DOMAIN_DELAY_SECONDS == 5

PolHosts == {"example.com", "other.org"}
PolThreads == {"t1", "t2", "t3"}
PolCaps == {1, 2}
\* delay multipliers handed over by the robots decision
PolMultipliers == {1, 2}
PolTickSizes == {5}

IdleThread(calls) == [pc |-> "idle", host |-> "", m |-> 0, calls |-> calls]

\* __init__: threading.Semaphore(max_global_concurrency), empty _next_allowed
NewPolitenessController(max_global_concurrency) ==
    /\ semaphore.max_global_concurrency = 0
    /\ max_global_concurrency >= 1
    /\ semaphore' = [max_global_concurrency |-> max_global_concurrency,
                     value |-> max_global_concurrency]
    /\ UNCHANGED <<calcVars, dbVars, nextId, now, lastOp, conn, robotsVars, next_allowed, thr,
                   lastGrant, fetchVars, pipe>>

SemaphoreFree_Always(sem) == sem.value >= 0

\* threading.Semaphore.acquire blocks while the counter is zero
SemaphoreFree(sem) == sem.value > 0

\* request_slot up to self._semaphore.acquire()
AcquireSlot(t, domain, delay_multiplier) ==
    /\ semaphore.max_global_concurrency >= 1
    /\ thr[t].pc = "idle"
    /\ thr[t].calls < MaxSlotCalls
    /\ SemaphoreFree(semaphore)
    /\ semaphore' = [semaphore EXCEPT !.value = @ - 1]
    /\ thr' = [thr EXCEPT ![t] = [pc |-> "waiting", host |-> domain,
                                  m |-> delay_multiplier, calls |-> @.calls + 1]]
    /\ UNCHANGED <<calcVars, dbVars, nextId, now, lastOp, conn, robotsVars, next_allowed,
                   lastGrant, fetchVars, pipe>>

EffectiveMultiplier_One(delay_multiplier) == 1

\* max(delay_multiplier, 0.0)
EffectiveMultiplier(delay_multiplier) ==
    IF delay_multiplier > 0 THEN delay_multiplier ELSE 0

NextAllowedAfter_NoMultiplier(t_now, delay_multiplier) ==
    t_now + PER_DOMAIN_DELAY_SECONDS

\* self._next_allowed[domain] = now + delay
NextAllowedAfter(t_now, delay_multiplier) ==
    t_now + PER_DOMAIN_DELAY_SECONDS * EffectiveMultiplier(delay_multiplier)

\* one pass of the loop of wait_for_domain, under self._lock
WaitForDomain(t) ==
    /\ thr[t].pc = "waiting"
    /\ LET domain == thr[t].host
           t_now == clock
           na == IF next_allowed[domain] = <<>> THEN t_now ELSE next_allowed[domain][1]
       IN  IF t_now >= na
           THEN /\ next_allowed' = [next_allowed EXCEPT
                                      ![domain] = <<NextAllowedAfter(t_now, thr[t].m)>>]
                /\ lastGrant' = [lastGrant EXCEPT ![domain] = <<[at |-> t_now, m |-> thr[t].m]>>]
                /\ thr' = [thr EXCEPT ![t].pc = "holding"]
           ELSE /\ thr' = [thr EXCEPT ![t].pc = "sleeping"]
                /\ UNCHANGED <<calcVars, next_allowed, lastGrant>>
    /\ UNCHANGED <<calcVars, dbVars, nextId, now, lastOp, conn, robotsVars, semaphore, fetchVars, pipe>>

\* self._sleep(wait_seconds) returns and the loop starts over
SleepReturns(t) ==
    /\ thr[t].pc = "sleeping"
    /\ thr' = [thr EXCEPT ![t].pc = "waiting"]
    /\ UNCHANGED <<calcVars, dbVars, nextId, now, lastOp, conn, robotsVars, semaphore, next_allowed,
                   lastGrant, fetchVars, pipe>>

\* the body of the with block ends: finally self._semaphore.release()
ReleaseSlot(t) ==
    /\ thr[t].pc = "holding"
    /\ semaphore' = [semaphore EXCEPT !.value = @ + 1]
    /\ thr' = [thr EXCEPT ![t] = IdleThread(@.calls)]
    /\ lastRelease' = [lastRelease EXCEPT ![thr[t].host] = <<[at |-> clock, m |-> thr[t].m]>>]
    /\ UNCHANGED <<notLastRelease, dbVars, nextId, now, lastOp, conn, robotsVars, next_allowed,
                   lastGrant, fetchVars, pipe>>

\* time.monotonic moves on
PolTick(d) ==
    /\ clock + d <= MaxPolTime
    /\ clock' = clock + d
    /\ UNCHANGED <<calcVars, dbVars, nextId, now, lastOp, conn, robotsCache, robotsRequests, lastEval,
                   fetcherVars>>

NextPoliteness ==
    \/ \E c \in PolCaps : NewPolitenessController(c)
    \/ \E t \in PolThreads, h \in PolHosts, m \in PolMultipliers : AcquireSlot(t, h, m)
    \/ \E t \in PolThreads : WaitForDomain(t)
    \/ \E t \in PolThreads : SleepReturns(t)
    \/ \E t \in PolThreads : ReleaseSlot(t)
    \/ \E d \in PolTickSizes : PolTick(d)

----------------------------------------------------------------------------
(* fetcher/http.py *)

ALLOWED_PROTOCOLS == {"http", "https"}
MAX_REDIRECTS == 5
MAX_BODY_BYTES_DEFAULT == 500000

\* the IPv4 networks of ComplianceConfig.BLOCKED_IP_RANGES: address, prefix length
BLOCKED_IP_RANGES ==
    {<< <<127, 0, 0, 1>>, 8 >>, << <<10, 0, 0, 0>>, 8 >>, << <<172, 16, 0, 0>>, 12 >>,
     << <<192, 168, 0, 0>>, 16 >>, << <<169, 254, 0, 0>>, 16 >>,
     << <<169, 254, 169, 254>>, 32 >>, << <<224, 0, 0, 0>>, 4 >>,
     << <<255, 255, 255, 255>>, 32 >>, << <<0, 0, 0, 0>>, 8 >>}

Pow2(n) == IF n = 0 THEN 1 ELSE IF n = 1 THEN 2 ELSE IF n = 2 THEN 4 ELSE IF n = 3 THEN 8
           ELSE IF n = 4 THEN 16 ELSE IF n = 5 THEN 32 ELSE IF n = 6 THEN 64
           ELSE IF n = 7 THEN 128 ELSE 256

\* number of bits of octet i that a prefix of length p covers
OctetBits(p, i) ==
    LET rest == p - 8 * (i - 1)
    IN  IF rest >= 8 THEN 8 ELSE IF rest <= 0 THEN 0 ELSE rest

\* ip_obj in ip_network(cidr, strict=False)
InNetwork(ip, network) ==
    \A i \in 1..4 :
        LET shift == Pow2(8 - OctetBits(network[2], i))
        IN  ip[i] \div shift = network[1][i] \div shift

_is_blocked_ip(ip) == \E network \in BLOCKED_IP_RANGES : InNetwork(ip, network)

\* socket.getaddrinfo as the resolver answers; an unknown name raises gaierror
\* and gives the empty set
_resolve_ip_addresses(hostname) ==
    CASE hostname = "example.com" -> {<<93, 184, 216, 34>>}
      [] hostname = "other.org" -> {<<172, 32, 0, 1>>}
      [] hostname = "intranet.local" -> {<<172, 31, 255, 255>>}
      [] hostname = "mixed.example" -> {<<93, 184, 216, 34>>, <<127, 0, 0, 1>>}
      [] hostname = "metadata.internal" -> {<<169, 254, 169, 254>>}
      [] OTHER -> {}

\* any(_is_blocked_ip(ip_text, blocked_networks) for ip_text in resolved)
HostBlocked(hostname) == \E ip \in _resolve_ip_addresses(hostname) : _is_blocked_ip(ip)

\* A URL string as urlparse splits it; parses = FALSE stands for a string
\* urlparse rejects with ValueError, such as "http://[::1/x".
Url(scheme, netloc, path) == [parses |-> TRUE, scheme |-> scheme, netloc |-> netloc, path |-> path]
UnparsableUrl == [parses |-> FALSE, scheme |-> "http", netloc |-> "[::1", path |-> "/x"]

\* urlparse(url).scheme.lower() in ALLOWED_PROTOCOLS
_validate_url_scheme(url) == Lower(url.scheme) \in ALLOWED_PROTOCOLS

\* urlparse(url).hostname or ""
Hostname(url) == Lower(url.netloc)

FetchUrls ==
    {Url("https", "example.com", "/post-1"),
     Url("http", "EXAMPLE.com", "/private/post"),
     Url("https", "other.org", "/post-2"),
     Url("ftp", "example.com", "/post-1"),
     Url("https", "", "/post-1"),
     Url("http", "intranet.local", "/post-1"),
     Url("https", "mixed.example", "/post-1"),
     UnparsableUrl}

\* the longest redirect chain a scripted site answers with
MaxChain == 7

\* What the content session answers: the i-th request gets a redirect to
\* hops[i] while i <= Len(hops), and final after that.
Reply(kind, status_code, content_type, body_len) ==
    [kind |-> kind, status_code |-> status_code, content_type |-> content_type,
     body_len |-> body_len]

OkReply == Reply("response", 200, "text/html", 1000)

FinalReplies ==
    {OkReply,
     Reply("response", 304, "", 0),
     Reply("response", 404, "text/html", 0),
     Reply("response", 302, "", 0),
     Reply("response", 200, "application/pdf", 1000),
     Reply("response", 200, "text/plain", 2000001),
     Reply("response", 200, "application/octet-stream", 500000),
     Reply("Timeout", 0, "", 0),
     Reply("ConnectionError", 0, "", 0)}

GoodChain(n) == [i \in 1..n |-> Url("https", "other.org", "/post-2")]

BadTargets ==
    {Url("ftp", "example.com", "/post-1"),
     Url("https", "intranet.local", "/post-1"),
     Url("https", "mixed.example", "/post-1"),
     Url("https", "gone.example", "/post-1"),
     UnparsableUrl}

Webs ==
    {[hops |-> GoodChain(n), final |-> OkReply] : n \in {1, MAX_REDIRECTS, MAX_REDIRECTS + 1, MaxChain}}
    \cup {[hops |-> <<>>, final |-> r] : r \in FinalReplies}
    \cup {[hops |-> <<u>>, final |-> OkReply] : u \in BadTargets}
    \cup {[hops |-> GoodChain(1) \o <<Url("https", "intranet.local", "/post-1")>>,
           final |-> OkReply]}
    \cup {[hops |-> GoodChain(2), final |-> Reply("Timeout", 0, "", 0)]}

\* _content_limit_for_response
_content_limit_for_response(content_type) ==
    CASE content_type = "" -> MAX_BODY_BYTES_DEFAULT
      [] content_type \in {"text/html", "application/xml", "text/xml",
                           "application/atom+xml", "application/rss+xml"} -> 5000000
      [] content_type \in {"application/json", "text/plain"} -> 2000000
      [] content_type \in {"application/pdf", "application/x-pdf"} -> 0
      [] OTHER -> MAX_BODY_BYTES_DEFAULT

\* _read_body_with_limit: the exception it raises, "" if none
_read_body_with_limit(body_len, max_bytes) ==
    IF max_bytes = 0 THEN "BodyLimitExceeded"
    ELSE IF body_len > max_bytes THEN "BodyLimitExceeded"
    ELSE ""

\* if hop >= max_redirects
HopLimitReached(hop, max_redirects_) == hop >= max_redirects_

TargetRejected_SchemeOnly(next_url) ==
    IF ~_validate_url_scheme(next_url) THEN "redirected to disallowed protocol" ELSE ""

\* the two checks on a redirect target: the message of the exception, "" if none
TargetRejected(next_url) ==
    IF ~_validate_url_scheme(next_url) THEN "redirected to disallowed protocol"
    ELSE IF HostBlocked(Hostname(next_url)) THEN "redirected to blocked IP range"
    ELSE ""

RECURSIVE FollowFrom(_, _, _, _)
\* the loop of _follow_redirects from iteration hop on; sent lists the URLs
\* session.get was called with
FollowFrom(web, current_url, hop, sent) ==
    IF hop > MAX_REDIRECTS
    THEN [raised |-> "RedirectLimitExceeded", response |-> <<>>, final_url |-> current_url,
          sent |-> sent]
    ELSE
    LET sent1 == Append(sent, current_url)
        redirect == hop + 1 <= Len(web.hops)
    IN  IF ~redirect /\ web.final.kind # "response"
        THEN [raised |-> web.final.kind, response |-> <<>>, final_url |-> current_url,
              sent |-> sent1]
        ELSE IF redirect
        THEN LET next_url == web.hops[hop + 1]
             IN  IF HopLimitReached(hop, MAX_REDIRECTS)
                 THEN [raised |-> "RedirectLimitExceeded", response |-> <<>>,
                       final_url |-> current_url, sent |-> sent1]
                 ELSE IF ~next_url.parses
                 THEN [raised |-> "ValueError", response |-> <<>>,
                       final_url |-> current_url, sent |-> sent1]
                 ELSE IF TargetRejected(next_url) # ""
                 THEN [raised |-> "RedirectLimitExceeded", response |-> <<>>,
                       final_url |-> current_url, sent |-> sent1]
                 ELSE FollowFrom(web, next_url, hop + 1, sent1)
        ELSE [raised |-> "", response |-> <<web.final>>, final_url |-> current_url,
              sent |-> sent1]

_follow_redirects(web, url) == FollowFrom(web, url, 0, <<>>)

\* What a fetch_url call returns or raises, and what it asked of whom
FetchResult(raised, doc, error_code, status_code, ev, slot, sent) ==
    [raised |-> raised, doc |-> doc, error_code |-> error_code,
     status_code |-> status_code, robots |-> ev, slot |-> slot, sent |-> sent]

\* fetch_url from the politeness gate on: the slot, the redirects, the body
FetchContent(url, web, ev, politeness) ==
    LET got == _follow_redirects(web, url)
    IN  IF got.raised = "RedirectLimitExceeded"
        THEN FetchResult("", <<>>, "REDIRECT_LIMIT", 0, ev, politeness, got.sent)
        ELSE IF got.raised = "Timeout"
        THEN FetchResult("", <<>>, "TIMEOUT", 0, ev, politeness, got.sent)
        ELSE IF got.raised = "ConnectionError"
        THEN FetchResult("", <<>>, "FETCH_ERROR", 0, ev, politeness, got.sent)
        ELSE IF got.raised # ""
        THEN FetchResult(got.raised, <<>>, "", 0, ev, politeness, got.sent)
        ELSE LET response == got.response[1]
             IN  IF response.status_code = 304
                 THEN FetchResult("", <<[status_code |-> 304, final_url |-> got.final_url,
                                         body_len |-> 0, has_body |-> FALSE]>>,
                                  "", 304, ev, politeness, got.sent)
                 ELSE IF _read_body_with_limit(response.body_len,
                            _content_limit_for_response(response.content_type)) # ""
                 THEN FetchResult("", <<>>, "BODY_TOO_LARGE", 0, ev, politeness, got.sent)
                 ELSE FetchResult("", <<[status_code |-> response.status_code,
                                         final_url |-> got.final_url,
                                         body_len |-> response.body_len,
                                         has_body |-> TRUE]>>,
                                  "", response.status_code, ev, politeness, got.sent)

RobotsDenies_Never(decision) == FALSE

\* if not decision.allowed and decision.error_code == BLOCKED_BY_ROBOTS
RobotsDenies(decision) == ~decision.allowed /\ decision.error_code = BLOCKED_BY_ROBOTS

\* fetch_url(url, run_id, robots_checker, politeness, session): web is what
\* the content session answers, outcome what the robots session answers
fetch_url(url, web, outcome, politeness) ==
    IF ~url.parses
    THEN FetchResult("ValueError", <<>>, "", 0, <<>>, FALSE, <<>>)
    ELSE IF ~_validate_url_scheme(url)
    THEN FetchResult("", <<>>, "SECURITY_BLOCKED", 0, <<>>, FALSE, <<>>)
    ELSE IF Hostname(url) = ""
    THEN FetchResult("", <<>>, "FETCH_ERROR", 0, <<>>, FALSE, <<>>)
    ELSE IF HostBlocked(Hostname(url))
    THEN FetchResult("", <<>>, "SECURITY_BLOCKED", 0, <<>>, FALSE, <<>>)
    ELSE LET ev == evaluate(url, outcome)
         IN  IF RobotsDenies(ev.decision)
             THEN FetchResult("", <<>>, "BLOCKED_BY_ROBOTS", 0, <<ev>>, FALSE, <<>>)
             ELSE FetchContent(url, web, <<ev>>, politeness)

\* the hosts the robots session requested: the host of robots.txt and the
\* host the redirects it followed led to
RobotsSent(ev, outcome) ==
    IF ev = <<>> \/ ~ev[1].fetched THEN <<>>
    ELSE IF outcome.history > 0 /\ outcome.kind = "response"
    THEN <<ev[1].domain, outcome.via>>
    ELSE <<ev[1].domain>>

\* the number of fetch_url calls in one behaviour
MaxFetches == 2

UnaskedOutcome == CHOOSE o \in RobotsOutcomes : o.status_code = 404
UnaskedWeb == [hops |-> <<>>, final |-> OkReply]

\* HttpFetchStage.fetch: one fetch_url call from start to return.  The
\* politeness controller is used when it has been constructed; with one
\* caller the semaphore is free and wait_for_domain sleeps until the host
\* is eligible.
FetchUrl(url, web, outcome) ==
    /\ lastFetch.n < MaxFetches
    /\ \A t \in PolThreads : thr[t].pc = "idle"
    /\ \E res \in {fetch_url(url, web, outcome, semaphore.max_global_concurrency >= 1)} :
       LET domain == Hostname(url)
           m == IF res.robots = <<>> THEN 1 ELSE res.robots[1].decision.delay_multiplier
           na == IF next_allowed[domain] = <<>> THEN clock ELSE next_allowed[domain][1]
           granted == IF clock >= na THEN clock ELSE na
       IN  \* a session that is not asked has no answer to enumerate
           /\ (res.robots = <<>> \/ ~res.robots[1].fetched) => outcome = UnaskedOutcome
           /\ res.sent = <<>> => web = UnaskedWeb
           /\ lastFetch' = [n |-> lastFetch.n + 1, url |-> url, raised |-> res.raised,
                            doc |-> res.doc, error_code |-> res.error_code,
                            status_code |-> res.status_code,
                            evaluated |-> res.robots # <<>>,
                            robots_sent |-> RobotsSent(res.robots, outcome),
                            slot |-> res.slot, sent |-> res.sent,
                            web |-> IF res.sent = <<>> THEN <<>> ELSE <<web>>]
           /\ requested' = requested
                 \cup {[session |-> "robots", host |-> RobotsSent(res.robots, outcome)[i]]
                          : i \in DOMAIN RobotsSent(res.robots, outcome)}
                 \cup {[session |-> "content", host |-> Hostname(res.sent[i])]
                          : i \in DOMAIN res.sent}
           /\ IF res.robots # <<>>
              THEN EvaluateEffect(url, outcome)
              ELSE UNCHANGED <<calcVars, robotsCache, robotsRequests, lastEval>>
           /\ IF res.slot
              THEN /\ clock' = granted
                   /\ next_allowed' = [next_allowed EXCEPT
                                         ![domain] = <<NextAllowedAfter(granted, m)>>]
                   /\ lastGrant' = [lastGrant EXCEPT ![domain] = <<[at |-> granted, m |-> m]>>]
              ELSE UNCHANGED <<calcVars, clock, next_allowed, lastGrant>>
    /\ UNCHANGED <<calcVars, dbVars, nextId, now, lastOp, conn, semaphore, thr, pipe>>

\* the answers of the two sessions that are tried together
FetchScenarios ==
    {sc \in Webs \X RobotsOutcomes : sc[1] = UnaskedWeb \/ sc[2] = UnaskedOutcome}

MAX_GLOBAL_CONCURRENCY == 1

NextFetch ==
    \/ \E u \in FetchUrls, sc \in FetchScenarios : FetchUrl(u, sc[1], sc[2])
    \/ NewPolitenessController(MAX_GLOBAL_CONCURRENCY)

----------------------------------------------------------------------------
(* Specification of the store under one caller *)

Workers == {"w1", "w2"}

IdleConn ==
    [pc |-> "idle", draft |-> <<>>, evidence_list |-> <<>>, run_id |-> NULL, t |-> NoTime,
     existing_row |-> <<>>, latest_hash |-> <<>>]

InitRobots ==
    /\ robotsCache = [d \in RobotsDomains |-> <<>>]
    /\ clock = 0
    /\ robotsRequests = [d \in RobotsDomains |-> 0]
    /\ lastEval = [n |-> 0, idle |-> 0, domain |-> "", at |-> 0, cache_hit |-> FALSE,
                   path |-> "", outcome |-> <<>>, decision |-> InvalidDecision]

\* before PolitenessController is constructed
InitPoliteness ==
    /\ semaphore = [max_global_concurrency |-> 0, value |-> 0]
    /\ next_allowed = [h \in PolHosts |-> <<>>]
    /\ thr = [t \in PolThreads |-> IdleThread(0)]
    /\ lastGrant = [h \in PolHosts |-> <<>>]

InitFetch ==
    /\ lastFetch = [n |-> 0, url |-> UnparsableUrl, raised |-> "", doc |-> <<>>,
                    error_code |-> "", status_code |-> 0, evaluated |-> FALSE,
                    robots_sent |-> <<>>, slot |-> FALSE, sent |-> <<>>, web |-> <<>>]
    /\ requested = {}

NewRunLog ==
    [status |-> "RUNNING", error_message |-> <<>>, ended |-> FALSE,
     fetched_count |-> 0, new_articles_count |-> 0,
     updated_articles_count |-> 0, error_count |-> 0]

InitPipeline ==
    /\ pipe = [pc |-> "idle", urls |-> <<>>, dry_run |-> FALSE, run_store |-> FALSE,
               pos |-> 1, run_log |-> NewRunLog, attempts |-> <<>>, events |-> <<>>,
               saved_fetch_logs |-> 0, saved_status |-> "", exported |-> FALSE,
               yielded |-> <<>>, discover_raised |-> FALSE, export_called |-> FALSE,
               export_raised |-> FALSE, persisted |-> <<>>]

\* no review file written yet, no review apply run yet
NoReview == [file |-> <<>>, queued |-> FALSE, edits |-> 0, history |-> <<>>]

NoSync ==
    [pc |-> "idle", run_id |-> NULL, feed |-> <<>>, pos |-> 1, new_articles_count |-> 0,
     updated_articles_count |-> 0, error_count |-> 0, articles_before |-> {},
     versions_before |-> {}, runs |-> <<>>]

\* no export run yet
NoExport == [called |-> FALSE, written |-> <<>>, error |-> <<>>, rows |-> <<>>]

\* no thread has called evaluate yet
IdleCheckers ==
    [t \in {"w1", "w2"} |->
        [pc |-> "idle", url |-> <<>>, calls |-> 0, cache_hit |-> FALSE, entry |-> <<>>]]

\* before the PolitenessController of the callers is constructed
NoGate ==
    [max_global_concurrency |-> 0, value |-> 0, clock |-> 0,
     next_allowed |-> [h \in {"example.com", "other.org"} |-> <<>>],
     thr |-> [t \in {"f1", "f2"} |->
                [pc |-> "idle", host |-> "", m |-> 0, wake |-> 0, calls |-> 0]],
     last_outcome |-> ""]

\* no URL processed yet
NoUrlPass == [n |-> 0, status_code |-> 0, draft |-> <<>>]

InitCalc ==
    /\ norm = [n |-> 0, input |-> <<>>, output |-> <<>>]
    /\ cand = [n |-> 0, profiles |-> <<>>, min_score |-> 0, output |-> <<>>]
    /\ trunc = [n |-> 0, text |-> <<>>, snippet |-> <<>>, extracted_text |-> <<>>]
    /\ review = NoReview
    /\ sync = NoSync
    /\ exp = NoExport
    /\ rthr = IdleCheckers
    /\ lastRelease = [h \in PolHosts |-> <<>>]
    /\ gate = NoGate
    /\ lastUrl = NoUrlPass

Init ==
    /\ articles = {}
    /\ versions = {}
    /\ evidence = {}
    /\ fetch_log = {}
    /\ merge_decisions = {}
    /\ authors = {}
    /\ run_log = {}
    /\ nextId = 1
    /\ now = 0
    /\ lastOp = OtherOp("init", NULL, "", FALSE)
    /\ conn = [w \in Workers |-> IdleConn]
    /\ InitRobots
    /\ InitPoliteness
    /\ InitFetch
    /\ InitPipeline
    /\ InitCalc

Next ==
    \/ \E d \in Drafts, s \in EvidenceShapes, r \in RunIds : UpsertArticle(d, s, r)
    \/ \E r \in RunIds : RollbackRun(r)
    \/ \E r \in RunIds : CreateRunLog(r)
    \/ \E r \in RunIds : SaveFetchLog(r)
    \/ \E a \in AuthorIds : EnsureAuthor(a)
    \/ \E id \in DecisionIds, r \in RunIds : SaveMergeDecision(id, "author-a", "author-b", r)

Spec == Init /\ [][Next]_vars

----------------------------------------------------------------------------
(* storage/sqlite.py: upsert_article called from several workers, each on its
   own connection (_connect opens one per call).  The sqlite3 module opens
   the transaction at the first INSERT/UPDATE/DELETE of a connection, not at
   a SELECT, so each SELECT reads the database as committed at that moment;
   the statements from the first write up to connection.commit() form one
   transaction, and SQLite runs write transactions one at a time. *)

\* lines 520-532: canonical_url, content_hash, now; open the connection;
\* SELECT id, version FROM articles WHERE canonical_url = ? AND source_id = ?
ConnSelectExisting(w, draft, shape, run_id) ==
    /\ conn[w].pc = "idle"
    /\ now < MaxOps
    /\ RunExists(run_id)
    /\ conn' = [conn EXCEPT ![w] =
                  [pc |-> "selected", draft |-> <<draft>>,
                   evidence_list |-> create_evidence(shape, nextId),
                   run_id |-> run_id, t |-> now + 1,
                   existing_row |-> LookupExisting(canonicalize_url(draft.canonical_url),
                                                   draft.source_id),
                   latest_hash |-> <<>>]]
    /\ nextId' = nextId + Len(shape)
    /\ now' = now + 1
    /\ UNCHANGED <<calcVars, dbVars, lastOp, robotsVars, fetcherVars>>

\* lines 597-609: SELECT content_hash FROM versions ... ORDER BY version DESC LIMIT 1
ConnSelectLatestHash(w) ==
    /\ conn[w].pc = "selected"
    /\ conn[w].existing_row # <<>>
    /\ conn' = [conn EXCEPT ![w].pc = "compared",
                            ![w].latest_hash = LatestHash(conn[w].existing_row[1].id)]
    /\ UNCHANGED <<calcVars, dbVars, nextId, now, lastOp, robotsVars, fetcherVars>>

\* lines 537-595 or 611-674: the writes, the commit (or the exception that
\* closes the connection without a commit), and the return
ConnWriteAndCommit(w) ==
    /\ \/ conn[w].pc = "selected" /\ conn[w].existing_row = <<>>
       \/ conn[w].pc = "compared"
    /\ LET c == conn[w]
           out == UpsertWrites(c.existing_row, c.latest_hash, c.draft[1], c.evidence_list,
                               c.run_id, c.t, nextId)
       IN  /\ articles' = out.articles
           /\ versions' = out.versions
           /\ evidence' = out.evidence
           /\ nextId' = nextId + out.ids
           /\ lastOp' = [op |-> "upsert_article", run_id |-> c.run_id,
                         key |-> <<canonicalize_url(c.draft[1].canonical_url),
                                   c.draft[1].source_id>>,
                         hash |-> <<_hash_article_fields(c.draft[1])>>,
                         supplied |-> Range(c.evidence_list),
                         article_id |-> out.article_id, created |-> out.created,
                         updated |-> out.updated, raised |-> out.raised,
                         summary |-> NoSummary]
    /\ conn' = [conn EXCEPT ![w] = IdleConn]
    /\ UNCHANGED <<calcVars, fetch_log, merge_decisions, authors, run_log, now, robotsVars, fetcherVars>>

\* the workers contend for one dedup key
ConcurrentDrafts == {d \in Drafts : d.source_id = "rss:test"}
ConcurrentShapes == {sh \in EvidenceShapes : Len(sh) = 1}

NextConcurrent ==
    \/ \E r \in RunIds : CreateRunLog(r)
    \/ \E w \in Workers, d \in ConcurrentDrafts, sh \in ConcurrentShapes, r \in RunIds :
          ConnSelectExisting(w, d, sh, r)
    \/ \E w \in Workers : ConnSelectLatestHash(w)
    \/ \E w \in Workers : ConnWriteAndCommit(w)

SpecConcurrent == Init /\ [][NextConcurrent]_vars

\* C9: concurrent upsert_article calls serialize: never two article rows for
\* one dedup key, never two version rows of an article with the same number,
\* never a call that fails because of the other call.
C9_ConcurrentUpsertsSerialize ==
    /\ \A a, b \in articles :
          (a.canonical_url = b.canonical_url /\ a.source_id = b.source_id) => a = b
    /\ \A v, w \in versions :
          (v.article_id = w.article_id /\ v.version = w.version) => v = w
    /\ lastOp.op = "upsert_article" => lastOp.raised = ""

\* The store fed only by the extract stage
NextPipeline ==
    \/ \E p \in ParsedPages, src \in SourceIds, r \in RunIds : StoreExtracted(p, src, r)
    \/ \E r \in RunIds : RollbackRun(r)
    \/ \E r \in RunIds : CreateRunLog(r)

SpecPipeline == Init /\ [][NextPipeline]_vars

----------------------------------------------------------------------------
(* Properties of the store *)

VersionRowsOf(vs, article_id) == {v \in vs : v.article_id = article_id}
VersionNumbersOf(vs, article_id) == {v.version : v \in VersionRowsOf(vs, article_id)}
EvidenceOf(evs, article_id) == {e \in evs : e.article_id = article_id}
MaxOf(S) == CHOOSE n \in S : \A m \in S : m <= n
\* the article rows that carry the dedup key of a call, and the content hash
\* of the highest version row of an article
ArticlesWithKey(key) == {a \in articles : <<a.canonical_url, a.source_id>> = key}
TopVersionRow(article_id) ==
    CHOOSE v \in VersionRowsOf(versions, article_id) :
        \A w \in VersionRowsOf(versions, article_id) : w.version <= v.version
IsUpsert(op) == op.op = "upsert_article" /\ op.raised = ""
IsRollback(op) == op.op = "rollback_run"

\* C1: no two article rows share (canonical_url, source_id); a draft is mapped
\* to the article that carries the draft's canonical URL and source_id, so
\* drafts with the same canonical URL and source map to one article id and
\* the same canonical URL under another source_id is another article.
C1_DedupKeyUnique ==
    /\ \A a, b \in articles :
          (a.canonical_url = b.canonical_url /\ a.source_id = b.source_id) => a = b
    /\ \A a, b \in articles : a.id = b.id => a = b
    /\ IsUpsert(lastOp) =>
          \E a \in articles :
             /\ a.id = lastOp.article_id
             /\ <<a.canonical_url, a.source_id>> = lastOp.key

C1_Witness ==
    /\ IsUpsert(lastOp) /\ ~lastOp.created
    /\ \E a, b \in articles :
          /\ a.id = lastOp.article_id
          /\ b.id # a.id
          /\ b.canonical_url = a.canonical_url
          /\ b.source_id # a.source_id

\* C2: an upsert on an existing dedup key whose draft hashes to the hash of
\* the latest version row returns (article, created=false, updated=false)
\* and leaves the article, version and evidence tables as they were.
C2_SameHashNoMutation ==
    [][\A x \in ArticlesWithKey(lastOp'.key) :
        (/\ lastOp'.op = "upsert_article"
         /\ TopVersionRow(x.id).content_hash = lastOp'.hash[1])
       => (/\ lastOp'.raised = ""
           /\ ~lastOp'.created /\ ~lastOp'.updated
           /\ lastOp'.article_id = x.id
           /\ articles' = articles
           /\ versions' = versions
           /\ evidence' = evidence)]_vars

\* the no-op upsert came from another run with other evidence than the stored one
C2_Witness ==
    /\ IsUpsert(lastOp) /\ ~lastOp.created /\ ~lastOp.updated
    /\ \A v \in VersionRowsOf(versions, lastOp.article_id) : v.run_id # lastOp.run_id
    /\ {e.evidence_type : e \in lastOp.supplied}
          # {e.evidence_type : e \in EvidenceOf(evidence, lastOp.article_id)}

\* C3: an upsert on an existing dedup key whose draft hashes differently from
\* the latest version row returns (article, false, true), raises the version
\* by exactly 1, replaces the article's evidence by the supplied evidence
\* stamped with the article id and the call's run_id, and adds exactly one
\* version row, for the new version number, with that run_id and the snapshot
\* of that evidence.
C3_ChangedHashNewVersion ==
    [][\A old \in ArticlesWithKey(lastOp'.key) :
        (/\ lastOp'.op = "upsert_article"
         /\ TopVersionRow(old.id).content_hash # lastOp'.hash[1])
       => LET id == old.id
              stamped == {[e EXCEPT !.article_id = id, !.run_id = lastOp'.run_id]
                             : e \in lastOp'.supplied}
          IN  /\ lastOp'.raised = ""
              /\ ~lastOp'.created /\ lastOp'.updated
              /\ lastOp'.article_id = id
              /\ \E a \in articles' : a.id = id /\ a.version = old.version + 1
              /\ EvidenceOf(evidence', id) = stamped
              /\ versions \subseteq versions'
              /\ \E v \in versions' :
                    /\ versions' \ versions = {v}
                    /\ v.article_id = id
                    /\ v.version = old.version + 1
                    /\ v.run_id = lastOp'.run_id
                    /\ v.content_hash = lastOp'.hash[1]
                    /\ {[r EXCEPT !.article_id = id] :
                           r \in Range(_deserialize_evidence_snapshot(v.evidence_snapshot, id))}
                          = stamped]_vars

C3_Witness ==
    /\ IsUpsert(lastOp) /\ lastOp.updated
    /\ \E a \in articles : a.id = lastOp.article_id /\ a.version = 2
    /\ \E e \in EvidenceOf(evidence, lastOp.article_id) : e.run_id = lastOp.run_id
    /\ \E v \in VersionRowsOf(versions, lastOp.article_id) : v.run_id # lastOp.run_id

\* C4 as stated: at all times, under upserts and rollbacks, the version rows
\* of every article are numbered 1..N without holes.
C4_VersionsContiguousAlways ==
    \A a \in articles :
        VersionNumbersOf(versions, a.id) = 1 .. a.version

\* C4 amended: under upsert_article alone the versions of an article run
\* 1..N without gaps: a new article gets version 1 with version row 1, an
\* upsert leaves the version or raises it by exactly 1 and writes the row of
\* the new number, and rows that were numbered 1..N stay numbered 1..N'.  At
\* all times the version rows of an article carry distinct numbers and the
\* article's version is the highest of them.  (rollback_run deletes version
\* rows, which can leave holes, and lowers the version to the highest
\* remaining row, after which numbers are used again.)
C4_VersionsContiguousUnderUpsert ==
    [][/\ \A a \in articles' :
            /\ VersionNumbersOf(versions', a.id) # {}
            /\ a.version = MaxOf(VersionNumbersOf(versions', a.id))
            /\ \A v, w \in VersionRowsOf(versions', a.id) : v.version = w.version => v = w
       /\ lastOp'.op = "upsert_article" =>
            \A a \in articles' :
               LET old == VersionNumbersOf(versions, a.id)
                   new == VersionNumbersOf(versions', a.id)
               IN  /\ old = {} => new = {1}
                   /\ old # {} => /\ old \subseteq new
                                  /\ MaxOf(new) \in {MaxOf(old), MaxOf(old) + 1}
                   /\ (old # {} /\ old = 1 .. MaxOf(old)) => new = 1 .. MaxOf(new)]_vars

C4_Witness ==
    /\ IsUpsert(lastOp) /\ lastOp.updated
    /\ VersionNumbersOf(versions, lastOp.article_id) = {1, 2}

C5_WitnessLogs ==
    /\ IsRollback(lastOp)
    /\ lastOp.summary.fetch_log_deleted + lastOp.summary.merge_decisions_deleted > 0

\* C6: after rollback_run(R) an article all of whose version rows were
\* written by R is gone together with its evidence; any other article with a
\* version row of R carries title, author_hint, published_at, snippet and
\* version of its highest remaining version row, and its evidence rows are
\* the evidence snapshot of that row, with the run_id of the run that wrote it.
C6_RollbackRestores ==
    [][IsRollback(lastOp') =>
        \A a \in articles :
            LET mine == {v \in VersionRowsOf(versions, a.id) : v.run_id = lastOp'.run_id}
                rest == VersionRowsOf(versions, a.id) \ mine
            IN  /\ (mine # {} /\ rest = {}) =>
                      /\ ~(\E b \in articles' : b.id = a.id)
                      /\ EvidenceOf(evidence', a.id) = {}
                /\ (mine # {} /\ rest # {}) =>
                      LET top == CHOOSE v \in rest : \A w \in rest : w.version <= v.version
                      IN  /\ \E b \in articles' :
                                /\ b.id = a.id
                                /\ b.title = top.title_snapshot
                                /\ b.author_hint = top.author_hint_snapshot
                                /\ b.published_at = top.published_at_snapshot
                                /\ b.snippet = top.snippet_snapshot
                                /\ b.version = top.version
                          /\ EvidenceOf(evidence', a.id) =
                                {[id |-> r.id, article_id |-> a.id,
                                  claim_path |-> r.claim_path,
                                  evidence_type |-> r.evidence_type,
                                  extracted_text |-> r.extracted_text,
                                  run_id |-> top.run_id]
                                    : r \in Range(top.evidence_snapshot)}]_vars

C6_Witness ==
    /\ IsRollback(lastOp)
    /\ lastOp.summary.articles_reverted > 0
    /\ \E a \in articles :
          /\ a.version = 1
          /\ a.updated_at = now
          /\ EvidenceOf(evidence, a.id) # {}

C6_WitnessDeleted ==
    /\ IsRollback(lastOp)
    /\ lastOp.summary.articles_deleted > 0

C8_EvidenceCoverage ==
    \A a \in articles :
        /\ a.title # NULL =>
              \E e \in EvidenceOf(evidence, a.id) : e.claim_path = "/title"
        /\ a.author_hint # NULL =>
              \E e \in EvidenceOf(evidence, a.id) : e.claim_path = "/author_hint"
        /\ a.published_at # NULL =>
              \E e \in EvidenceOf(evidence, a.id) : e.claim_path = "/published_at"

C8_Witness ==
    /\ IsRollback(lastOp)
    /\ lastOp.summary.articles_reverted > 0
    /\ \E a \in articles :
          /\ a.title # NULL /\ a.author_hint # NULL /\ a.published_at # NULL
          /\ a.updated_at = now

----------------------------------------------------------------------------
(* The robots cache under a moving clock *)

NextRobots ==
    \/ \E u \in RobotsUrls, o \in RobotsOutcomes : Evaluate(u, o)
    \/ \E d \in TickSizes : AdvanceClock(d)

SpecRobots == Init /\ [][NextRobots]_vars

\* C10: an evaluate call for a host whose cached entry is unexpired issues no
\* robots request (session.get call) and keeps the entry; an evaluate call
\* for a host with no entry, or whose entry's expires_at the clock has
\* reached, issues exactly one request and replaces the entry by an
\* unexpired one.  A request is one session.get call for robots.txt; the
\* entries and request counts of other hosts are untouched.
C10_RobotsSingleFetchPerTtl ==
    [][(lastEval'.n = lastEval.n + 1 /\ lastEval'.domain # "") =>
        LET d == lastEval'.domain
        IN  /\ \A e \in RobotsDomains \ {d} :
                  /\ robotsRequests'[e] = robotsRequests[e]
                  /\ robotsCache'[e] = robotsCache[e]
            /\ (robotsCache[d] # <<>> /\ clock < robotsCache[d][1].expires_at) =>
                  /\ robotsRequests'[d] = robotsRequests[d]
                  /\ robotsCache'[d] = robotsCache[d]
                  /\ lastEval'.cache_hit
            /\ (robotsCache[d] = <<>> \/ clock >= robotsCache[d][1].expires_at) =>
                  /\ robotsRequests'[d] = robotsRequests[d] + 1
                  /\ robotsCache'[d] # <<>>
                  /\ robotsCache'[d] # robotsCache[d]
                  /\ robotsCache'[d][1].expires_at > clock
                  /\ ~lastEval'.cache_hit]_vars

\* a second evaluate within the TTL was served from the cache: one request
C10_Witness ==
    /\ lastEval.n >= 2
    /\ lastEval.cache_hit
    /\ clock > 0
    /\ robotsRequests[lastEval.domain] = 1

\* an evaluate at the moment of expiry fetched again
C10_WitnessExpired ==
    /\ lastEval.n >= 2
    /\ lastEval.domain # ""
    /\ ~lastEval.cache_hit
    /\ robotsRequests[lastEval.domain] = 2
    /\ clock \in {_ttl_5xx_seconds, _ttl_success_seconds, _ttl_not_found_seconds}

\* the row of the robots policy table an outcome of the request falls in:
\* mode, TTL in seconds, delay multiplier, whether a warning is emitted
C11_Row(o) ==
    CASE o.kind = "response" /\ o.history > 5 ->
            [mode |-> "allow_all", ttl |-> 3600, multiplier |-> 1, warns |-> TRUE]
      [] o.kind \in {"Timeout", "TooManyRedirects"} ->
            [mode |-> "allow_all", ttl |-> 3600, multiplier |-> 1, warns |-> TRUE]
      [] o.kind = "ConnectionError" ->
            [mode |-> "allow_with_caution", ttl |-> 900, multiplier |-> 2, warns |-> TRUE]
      [] o.kind = "response" /\ o.history <= 5 /\ o.status_code = 200 ->
            [mode |-> "parsed", ttl |-> 3600, multiplier |-> 1, warns |-> FALSE]
      [] o.kind = "response" /\ o.history <= 5 /\ o.status_code = 404 ->
            [mode |-> "allow_all", ttl |-> 14400, multiplier |-> 1, warns |-> TRUE]
      [] o.kind = "response" /\ o.history <= 5 /\ o.status_code \in 500..599 ->
            [mode |-> "allow_with_caution", ttl |-> 900, multiplier |-> 2, warns |-> TRUE]
      [] OTHER ->
            [mode |-> "allow_all", ttl |-> 3600, multiplier |-> 1, warns |-> TRUE]

\* C11: the entry cached after a robots request matches the policy table
\* for every outcome of the request (mode, TTL, multiplier, warning), and
\* the decision of every evaluate call is allowed=false with
\* BLOCKED_BY_ROBOTS and multiplier 1 exactly when the URL has no host or the
\* entry is parsed and its parser forbids the URL; otherwise it is allowed
\* with the entry's multiplier, which is 2 exactly for allow_with_caution.
C11_RobotsPolicyTable ==
    [][lastEval'.n = lastEval.n + 1 =>
        LET dec == lastEval'.decision
            d == lastEval'.domain
        IN  IF d = ""
            THEN ~dec.allowed /\ dec.error_code = "BLOCKED_BY_ROBOTS"
                 /\ dec.delay_multiplier = 1
            ELSE LET entry == robotsCache'[d][1]
                     forbidden == entry.mode = "parsed" /\ entry.parser # <<>>
                                  /\ ~ParserCanFetch(entry.parser[1], lastEval'.path)
                 IN  /\ lastEval'.outcome # <<>> =>
                           LET row == C11_Row(lastEval'.outcome[1])
                           IN  /\ entry.mode = row.mode
                               /\ entry.expires_at = clock + row.ttl
                               /\ entry.delay_multiplier = row.multiplier
                               /\ (entry.warning # "") = row.warns
                     /\ dec.mode = entry.mode
                     /\ dec.warning = entry.warning
                     /\ forbidden =>
                           /\ ~dec.allowed
                           /\ dec.error_code = "BLOCKED_BY_ROBOTS"
                           /\ dec.delay_multiplier = 1
                     /\ ~forbidden =>
                           /\ dec.allowed
                           /\ dec.error_code = ""
                           /\ dec.delay_multiplier = entry.delay_multiplier
                     /\ (dec.delay_multiplier = 2) = (entry.mode = "allow_with_caution")]_vars

\* a robots request failed with a server error and the URL was allowed at
\* half rate
C11_Witness ==
    /\ lastEval.n >= 1
    /\ lastEval.outcome # <<>>
    /\ lastEval.outcome[1].status_code = 503
    /\ lastEval.decision.allowed
    /\ lastEval.decision.delay_multiplier = 2

\* a parsed robots.txt forbade the URL
C11_WitnessBlocked ==
    /\ lastEval.n >= 1
    /\ lastEval.domain # ""
    /\ lastEval.decision.mode = "parsed"
    /\ ~lastEval.decision.allowed

----------------------------------------------------------------------------
(* The politeness gate under parallel callers *)

SpecPoliteness == Init /\ [][NextPoliteness]_vars

SlotHolders == {t \in PolThreads : thr[t].pc \in {"waiting", "sleeping", "holding"}}

\* C13: when two consecutive grants of wait_for_domain on one host were both
\* asked with multiplier m, the clock moved by at least base_delay * m
\* between them; a caller of a host that was never granted before is granted
\* at its first pass and never sleeps.
C13_PolitenessMinGap ==
    [][/\ \A h \in PolHosts :
            (lastGrant'[h] # lastGrant[h] /\ lastGrant[h] # <<>>
               /\ lastGrant'[h][1].m = lastGrant[h][1].m) =>
                  lastGrant'[h][1].at - lastGrant[h][1].at >= 5 * lastGrant[h][1].m
       /\ \A t \in PolThreads :
            (thr[t].pc = "waiting" /\ thr'[t].pc = "sleeping") =>
                  lastGrant[thr[t].host] # <<>>]_vars

\* a second grant on a host after the caller had to sleep
C13_Witness ==
    \E t \in PolThreads, h \in PolHosts :
        /\ thr[t].pc = "holding" /\ thr[t].host = h /\ thr[t].m = 2
        /\ lastGrant[h] # <<>> /\ lastGrant[h][1].at >= 10 /\ lastGrant[h][1].m = 2

\* C14: the callers between acquire and release of the semaphore never
\* outnumber max_global_concurrency, and a caller enters only when fewer than
\* max_global_concurrency callers hold a slot.
C14_GlobalSlotCap ==
    [][/\ Cardinality(SlotHolders) <= semaphore.max_global_concurrency
       /\ Cardinality(SlotHolders') <= semaphore'.max_global_concurrency
       /\ (\E t \in PolThreads : thr[t].pc = "idle" /\ thr'[t].pc # "idle") =>
             Cardinality(SlotHolders) < semaphore.max_global_concurrency]_vars

\* all slots are taken and another caller is still outside
C14_Witness ==
    /\ semaphore.max_global_concurrency = 2
    /\ Cardinality(SlotHolders) = 2
    /\ \E t \in PolThreads : thr[t].pc = "idle" /\ thr[t].calls = 0

\* C15: two fetches to one host never have their requests in progress at
\* the same time, whatever the concurrency cap.
C15_HostSerialized ==
    \A t, u \in PolThreads :
        (t # u /\ thr[t].pc = "holding" /\ thr[u].pc = "holding") => thr[t].host # thr[u].host

\* the step of wait_for_domain that lets thread t go on to its request
IsGrant(t) == thr[t].pc = "waiting" /\ thr'[t].pc = "holding"

\* C33 as stated: next_allowed is set when the slot is released, so a grant
\* on a host comes no earlier than base_delay * m after the last release on
\* that host, m being the multiplier of the released slot.
C33_SetAtRelease ==
    [][\A t \in PolThreads :
        (IsGrant(t) /\ lastRelease[thr[t].host] # <<>>) =>
            clock >= lastRelease[thr[t].host][1].at
                       + PER_DOMAIN_DELAY_SECONDS * lastRelease[thr[t].host][1].m]_vars

\* C33 amended: next_allowed is set when the acquire is granted: the grant
\* at clock time t_grant with multiplier m writes t_grant + base_delay * m,
\* the release leaves next_allowed as it is, and no later acquire for the
\* same host is granted before t_grant + base_delay * m.
C33_SetAtGrant ==
    [][/\ \A t \in PolThreads :
            IsGrant(t) =>
                /\ next_allowed'[thr[t].host] =
                       <<clock + PER_DOMAIN_DELAY_SECONDS * thr[t].m>>
                /\ lastGrant[thr[t].host] # <<>> =>
                       clock >= lastGrant[thr[t].host][1].at
                                  + PER_DOMAIN_DELAY_SECONDS * lastGrant[thr[t].host][1].m
       /\ \A t \in PolThreads :
            (thr[t].pc = "holding" /\ thr'[t].pc = "idle") => next_allowed' = next_allowed]_vars

\* a slot held for the whole delay is released, and the next caller of the
\* host is granted at the time of the release
C33_Witness ==
    \E t \in PolThreads, h \in PolHosts :
        /\ thr[t].pc = "holding" /\ thr[t].host = h
        /\ lastRelease[h] # <<>> /\ lastGrant[h] # <<>>
        /\ lastGrant[h][1].at = lastRelease[h][1].at
        /\ lastGrant[h][1].at >= 5
        /\ next_allowed[h] = <<lastGrant[h][1].at + 5 * lastGrant[h][1].m>>

----------------------------------------------------------------------------
(* fetch_url under one caller *)

SpecFetch == Init /\ [][NextFetch]_vars

IsFetch == lastFetch'.n = lastFetch.n + 1

ContentRequests(reqs) == {r \in reqs : r.session = "content"}

\* C12: a fetch whose robots decision denies the URL returns no document
\* and error_code BLOCKED_BY_ROBOTS, sends nothing to the content session
\* and leaves the politeness gate as it was (no slot taken, no next_allowed
\* entry written, no waiting); no other fetch reports BLOCKED_BY_ROBOTS.
C12_RobotsBlockBeforeGate ==
    [][IsFetch =>
        /\ (lastFetch'.evaluated /\ ~lastEval'.decision.allowed) =>
              /\ lastFetch'.raised = ""
              /\ lastFetch'.doc = <<>>
              /\ lastFetch'.error_code = "BLOCKED_BY_ROBOTS"
              /\ lastFetch'.sent = <<>>
              /\ ~lastFetch'.slot
              /\ ContentRequests(requested') = ContentRequests(requested)
              /\ UNCHANGED <<calcVars, semaphore, next_allowed, lastGrant, clock>>
        /\ lastFetch'.error_code = "BLOCKED_BY_ROBOTS" =>
              lastFetch'.evaluated /\ ~lastEval'.decision.allowed]_vars

\* robots.txt forbade the URL while a politeness controller was in use and
\* the host had been fetched before
C12_Witness ==
    /\ lastFetch.n >= 2
    /\ lastFetch.error_code = "BLOCKED_BY_ROBOTS"
    /\ semaphore.max_global_concurrency >= 1
    /\ next_allowed[Hostname(lastFetch.url)] # <<>>

FetchErrorCodes ==
    {"SECURITY_BLOCKED", "BLOCKED_BY_ROBOTS", "TIMEOUT", "FETCH_ERROR", "REDIRECT_LIMIT",
     "BODY_TOO_LARGE"}

\* C16: fetch_url never raises; it returns a document or an error code, never
\* both and never neither, and the error code is one of the six codes.
C16_FetchNeverRaises ==
    lastFetch.n >= 1 =>
        /\ lastFetch.raised = ""
        /\ (lastFetch.doc # <<>>) # (lastFetch.error_code # "")
        /\ lastFetch.error_code \in FetchErrorCodes \cup {""}

\* C17: a URL with a scheme other than http/https, with an empty host, or
\* with a host one of whose resolved addresses is blocked is answered with
\* no document and SECURITY_BLOCKED, and neither session is asked anything.
C17_SecurityBlocked ==
    (lastFetch.n >= 1 /\ lastFetch.url.parses
       /\ (\/ Lower(lastFetch.url.scheme) \notin {"http", "https"}
           \/ lastFetch.url.netloc = ""
           \/ \E ip \in _resolve_ip_addresses(Lower(lastFetch.url.netloc)) : _is_blocked_ip(ip)))
    => /\ lastFetch.doc = <<>>
       /\ lastFetch.error_code = "SECURITY_BLOCKED"
       /\ lastFetch.sent = <<>>
       /\ lastFetch.robots_sent = <<>>

\* C18: no session is ever asked for a URL whose host resolves to a blocked
\* address, neither for the URL itself nor along redirects.
C18_NoRequestToBlockedIp ==
    \A r \in requested :
        ~(\E ip \in _resolve_ip_addresses(r.host) : _is_blocked_ip(ip))

\* the first redirect target of a scripted site that the checks reject, 0 if none
C19_FirstRejected(w) ==
    LET bad == {k \in DOMAIN w.hops :
                   \/ Lower(w.hops[k].scheme) \notin {"http", "https"}
                   \/ \E ip \in _resolve_ip_addresses(Lower(w.hops[k].netloc)) :
                          _is_blocked_ip(ip)}
    IN  IF bad = {} THEN 0 ELSE CHOOSE k \in bad : \A j \in bad : k <= j

\* C19: for a fetch that reaches the content session: more than 5
\* successive redirects give REDIRECT_LIMIT after exactly 6 requests; 5
\* redirects and a final response give that response from the last target
\* after 6 requests; a redirect (within the first 5) to a target
\* with a disallowed scheme or a blocked address gives REDIRECT_LIMIT and
\* the target is not requested.
C19_RedirectLimit ==
    [][(IsFetch /\ lastFetch'.web # <<>>
          /\ \A k \in DOMAIN lastFetch'.web[1].hops : lastFetch'.web[1].hops[k].parses) =>
        LET w == lastFetch'.web[1]
            res == lastFetch'
            k == C19_FirstRejected(w)
        IN  /\ (k = 0 /\ Len(w.hops) > 5) =>
                  /\ res.doc = <<>> /\ res.error_code = "REDIRECT_LIMIT"
                  /\ Len(res.sent) = 6
            /\ (k = 0 /\ Len(w.hops) = 5 /\ w.final = OkReply) =>
                  /\ res.error_code = "" /\ res.doc # <<>>
                  /\ res.doc[1].status_code = 200
                  /\ res.doc[1].final_url = w.hops[5]
                  /\ Len(res.sent) = 6
            /\ (k \in 1..5) =>
                  /\ res.doc = <<>> /\ res.error_code = "REDIRECT_LIMIT"
                  /\ Len(res.sent) = k
                  /\ \A i \in DOMAIN res.sent : res.sent[i] # w.hops[k]]_vars

\* a chain of exactly five redirects was followed to its end
C19_Witness ==
    /\ lastFetch.n >= 1
    /\ lastFetch.web # <<>>
    /\ Len(lastFetch.web[1].hops) = 5
    /\ lastFetch.doc # <<>>
    /\ Len(lastFetch.sent) = 6

\* a chain of more than five redirects was cut off
C19_WitnessLimit ==
    /\ lastFetch.n >= 1
    /\ lastFetch.web # <<>>
    /\ Len(lastFetch.web[1].hops) > 5
    /\ lastFetch.error_code = "REDIRECT_LIMIT"

\* a redirect to a host with a blocked address was refused
C19_WitnessBlockedTarget ==
    /\ lastFetch.n >= 1
    /\ lastFetch.web # <<>>
    /\ lastFetch.web[1].hops # <<>>
    /\ lastFetch.web[1].hops[Len(lastFetch.web[1].hops)].netloc = "intranet.local"
    /\ lastFetch.error_code = "REDIRECT_LIMIT"

(***************************************************************************)
(* core/pipeline.py: Pipeline.run.  The six stages are interfaces, so what *)
(* a stage does for one URL is an input: it returns or it raises.          *)
(***************************************************************************)
MaxUrls == 2

DiscoveredUrls == {"https://example.com/a", "https://example.com/b"}

UrlLists == UNION {[1..n -> DiscoveredUrls] : n \in 0..MaxUrls}

\* What the stages do for one URL when they are called.
StageBehaviours ==
    [fetch_raises : BOOLEAN, doc : BOOLEAN, error_code : {"", "TIMEOUT"},
     save_raises : BOOLEAN, parse_raises : BOOLEAN, extract_raises : BOOLEAN,
     store_raises : BOOLEAN, created : BOOLEAN, updated : BOOLEAN]

FetchFailed_DocOnly(doc, error_code) == ~doc

\* if fetch_log.error_code or fetched_doc is None
FetchFailed(doc, error_code) == error_code # "" \/ ~doc

\* The stages the loop body does not reach are not asked; their behaviour is
\* fixed to "returns" so that one run is not counted several times.
StoreUnasked(b) == ~b.store_raises /\ ~b.created /\ ~b.updated

AfterExtractUnasked(b) == StoreUnasked(b)

AfterParseUnasked(b) == ~b.extract_raises /\ AfterExtractUnasked(b)

AfterFetchUnasked(b) == ~b.parse_raises /\ AfterParseUnasked(b)

Reachable(b, dry_run, run_store) ==
    /\ b.fetch_raises => (b.doc /\ b.error_code = "" /\ ~b.save_raises /\ AfterFetchUnasked(b))
    /\ ~run_store => ~b.save_raises
    /\ b.save_raises => AfterFetchUnasked(b)
    /\ FetchFailed(b.doc, b.error_code) => AfterFetchUnasked(b)
    /\ b.parse_raises => AfterParseUnasked(b)
    /\ b.extract_raises => AfterExtractUnasked(b)
    /\ dry_run => StoreUnasked(b)
    /\ b.store_raises => (~b.created /\ ~b.updated)
    /\ ~(b.created /\ b.updated)

StageEvent(event_type, stage, url) ==
    [event_type |-> event_type, stage |-> stage, url |-> url]

\* One pass of the loop body for one URL: the stages called, in order, the
\* stage an exception came from ("" when none), and the counter increments.
UrlPass(called, raised_in, skipped, fetched, created, updated, saved) ==
    [called |-> called, raised_in |-> raised_in, skipped |-> skipped,
     fetched |-> fetched, created |-> created, updated |-> updated, saved |-> saved]

\* "if not dry_run:" guards the store call and the export call.
StageSkipped_Never(dry_run) == FALSE

StageSkipped(dry_run) == dry_run

LoopBody(b, dry_run, run_store) ==
    LET saved == IF run_store THEN 1 ELSE 0 IN
    IF b.fetch_raises
      THEN UrlPass(<<"fetch">>, "fetch", FALSE, 0, 0, 0, 0)
    ELSE IF run_store /\ b.save_raises
      THEN UrlPass(<<"fetch">>, "fetch", FALSE, 1, 0, 0, 0)
    ELSE IF FetchFailed(b.doc, b.error_code)
      THEN UrlPass(<<"fetch">>, "", TRUE, 1, 0, 0, saved)
    ELSE IF b.parse_raises
      THEN UrlPass(<<"fetch", "parse">>, "parse", FALSE, 1, 0, 0, saved)
    ELSE IF b.extract_raises
      THEN UrlPass(<<"fetch", "parse", "extract">>, "extract", FALSE, 1, 0, 0, saved)
    ELSE IF StageSkipped(dry_run)
      THEN UrlPass(<<"fetch", "parse", "extract">>, "", FALSE, 1, 0, 0, saved)
    ELSE IF b.store_raises
      THEN UrlPass(<<"fetch", "parse", "extract", "store">>, "store", FALSE, 1, 0, 0, saved)
    ELSE UrlPass(<<"fetch", "parse", "extract", "store">>, "", FALSE, 1,
                 IF b.created THEN 1 ELSE 0, IF b.updated THEN 1 ELSE 0, saved)

\* The error_count increment of one pass: the continue after a failed fetch
\* result and the except branch both add one.
ErrorIncrement(pass) == IF pass.skipped \/ pass.raised_in # "" THEN 1 ELSE 0

\* One call of the run store: create_run_log, save_fetch_log or update_run_log
\* with the values it writes; done is the number of URLs handled before it.
StoreCall(call, rl, url, error_code, done, discovered) ==
    [call |-> call, status |-> rl.status, error_message |-> rl.error_message,
     ended |-> rl.ended, url |-> url, error_code |-> error_code,
     done |-> done, discovered |-> discovered]

\* _persist_run_end after the final status, message and ended_at are set.
EndRun(p, status, error_message) ==
    LET rl == [p.run_log EXCEPT !.status = status, !.error_message = error_message,
                                !.ended = TRUE]
    IN  [p EXCEPT !.pc = "done",
                  !.run_log = rl,
                  !.saved_status = IF p.run_store THEN status ELSE p.saved_status,
                  !.persisted = IF p.run_store
                                  THEN Append(@, StoreCall("update_run_log", rl, "", "",
                                                           Len(p.attempts), TRUE))
                                  ELSE @]

\* str(e) of the exception a stage raises; a message is the sequence of its
\* parts, empty for None.
DiscoverError == "discover boom"

ExportError == "export boom"

ExportFailureMessage(e) == <<"Export failed: ", e>>

ExportFailureStatus_Completed == "COMPLETED"

\* run_log.status = RunStatus.FAILED in the except branch of the export.
ExportFailureStatus == "FAILED"

DiscoverAborts_Lazy(yielded, discover_raises) == discover_raises /\ yielded = <<>>

\* urls = list(self.discover.discover(seed, run_id)): the generator is drained
\* before the loop, so an exception after some URLs still ends the run.
DiscoverAborts(yielded, discover_raises) == discover_raises

\* run(): create the run log, persist it, discover the URLs.
RunStart(urls, dry_run, run_store, discover_raises) ==
    /\ pipe.pc = "idle"
    /\ LET started == [pipe EXCEPT !.yielded = urls, !.dry_run = dry_run,
                                   !.run_store = run_store, !.run_log = NewRunLog,
                                   !.discover_raised = discover_raises,
                                   !.saved_status = IF run_store THEN "RUNNING" ELSE "",
                                   !.persisted = IF run_store
                                                   THEN <<StoreCall("create_run_log", NewRunLog,
                                                                    "", "", 0, FALSE)>>
                                                   ELSE <<>>]
       IN  pipe' = IF DiscoverAborts(urls, discover_raises)
                     THEN [EndRun(started, "FAILED", <<DiscoverError>>)
                             EXCEPT !.events = <<StageEvent("pipeline_run_error", "run", "")>>]
                   ELSE IF urls = <<>>
                     THEN EndRun(started, "COMPLETED", <<"No URLs discovered">>)
                   ELSE [started EXCEPT !.pc = "loop", !.pos = 1, !.urls = urls]
    /\ UNCHANGED <<calcVars, dbVars, nextId, now, lastOp, conn, robotsVars, polVars, fetchVars>>

\* One iteration of "for url in urls".
ProcessUrl(b) ==
    /\ pipe.pc = "loop"
    /\ pipe.pos <= Len(pipe.urls)
    /\ Reachable(b, pipe.dry_run, pipe.run_store)
    /\ LET url == pipe.urls[pipe.pos]
           pass == LoopBody(b, pipe.dry_run, pipe.run_store)
           rl == pipe.run_log
       IN  pipe' = [pipe EXCEPT
             !.pos = @ + 1,
             !.pc = IF pipe.pos = Len(pipe.urls) THEN "export" ELSE "loop",
             !.run_log = [rl EXCEPT
                 !.fetched_count = @ + pass.fetched,
                 !.new_articles_count = @ + pass.created,
                 !.updated_articles_count = @ + pass.updated,
                 !.error_count = @ + ErrorIncrement(pass)],
             !.saved_fetch_logs = @ + pass.saved,
             !.persisted = IF pass.saved = 1
                             THEN Append(@, StoreCall("save_fetch_log", rl, url, b.error_code,
                                                      Len(pipe.attempts), TRUE))
                             ELSE @,
             !.attempts = Append(@, [url |-> url, called |-> pass.called,
                                     raised_in |-> pass.raised_in,
                                     error_code |-> IF b.fetch_raises THEN "" ELSE b.error_code,
                                     fetch_raised |-> b.fetch_raises,
                                     save_raised |-> pipe.run_store /\ b.save_raises,
                                     created |-> pass.created, updated |-> pass.updated,
                                     errors_before |-> rl.error_count,
                                     errors_after |-> rl.error_count + ErrorIncrement(pass)]),
             !.events = IF pass.raised_in # ""
                          THEN Append(@, StageEvent("pipeline_stage_error", pass.raised_in, url))
                          ELSE @]
    /\ UNCHANGED <<calcVars, dbVars, nextId, now, lastOp, conn, robotsVars, polVars, fetchVars>>

\* After the loop: export unless dry_run, then the final status.
Export(export_raises) ==
    /\ pipe.pc = "export"
    /\ pipe.dry_run => ~export_raises
    /\ LET called == [pipe EXCEPT !.export_called = ~StageSkipped(pipe.dry_run),
                                  !.export_raised = ~StageSkipped(pipe.dry_run) /\ export_raises]
       IN  pipe' = IF called.export_raised
                     THEN [EndRun(called, ExportFailureStatus, ExportFailureMessage(ExportError))
                             EXCEPT !.events = Append(@, StageEvent("pipeline_export_error", "export", ""))]
                   ELSE [EndRun(called, "COMPLETED", pipe.run_log.error_message)
                             EXCEPT !.exported = called.export_called]
    /\ UNCHANGED <<calcVars, dbVars, nextId, now, lastOp, conn, robotsVars, polVars, fetchVars>>

NextRun ==
    \/ \E urls \in UrlLists, dry_run \in BOOLEAN, run_store \in BOOLEAN,
          discover_raises \in BOOLEAN : RunStart(urls, dry_run, run_store, discover_raises)
    \/ \E b \in StageBehaviours : ProcessUrl(b)
    \/ \E export_raises \in BOOLEAN : Export(export_raises)

SpecRun == Init /\ [][NextRun]_vars

\* The failures the claim names: a fetch result with an error code, or an
\* exception from the fetch, parse, extract or store stage.
UrlFailed(att) == att.error_code # "" \/ att.raised_in \in {"fetch", "parse", "extract", "store"}

StagesUpTo(stage) ==
    CASE stage = "fetch" -> <<"fetch">>
      [] stage = "parse" -> <<"fetch", "parse">>
      [] stage = "extract" -> <<"fetch", "parse", "extract">>
      [] stage = "store" -> <<"fetch", "parse", "extract", "store">>

\* Every attempt so far is for the URL at its position of the discovered
\* list; a failed URL adds exactly one to error_count and calls no stage
\* after the one that failed; nothing else changes error_count.
UrlFailuresContained ==
    /\ Len(pipe.attempts) = pipe.pos - 1
    /\ \A k \in 1..Len(pipe.attempts) :
          LET att == pipe.attempts[k] IN
          /\ att.url = pipe.urls[k]
          /\ att.errors_before = IF k = 1 THEN 0 ELSE pipe.attempts[k - 1].errors_after
          /\ att.errors_after \in {att.errors_before, att.errors_before + 1}
          /\ UrlFailed(att) =>
                /\ att.errors_after = att.errors_before + 1
                /\ att.called = StagesUpTo(IF att.raised_in # "" THEN att.raised_in ELSE "fetch")
    /\ pipe.attempts # <<>> =>
          pipe.run_log.error_count = pipe.attempts[Len(pipe.attempts)].errors_after
    /\ pipe.pc \in {"loop", "export"} => pipe.run_log.status = "RUNNING"
    /\ (pipe.pc \in {"export", "done"} /\ pipe.urls # <<>>) =>
          Len(pipe.attempts) = Len(pipe.urls)

LastPersisted == pipe.persisted[Len(pipe.persisted)]

C22_WitnessAtStart ==
    /\ pipe.discover_raised
    /\ pipe.yielded = <<>>
    /\ pipe.run_log.status = "FAILED"

FetchLogsPersisted == {k \in 1..Len(pipe.persisted) : pipe.persisted[k].call = "save_fetch_log"}

\* C23: in a dry run the store stage and the export stage are never called,
\* every URL still goes through fetch, parse and extract unless one of them
\* fails for it, fetch logs are still persisted, and new_articles_count and
\* updated_articles_count stay 0.
C23_DryRunSkipsStoreAndExport ==
    pipe.dry_run =>
        /\ ~pipe.export_called
        /\ ~pipe.exported
        /\ pipe.run_log.new_articles_count = 0
        /\ pipe.run_log.updated_articles_count = 0
        /\ \A k \in 1..Len(pipe.attempts) :
              LET att == pipe.attempts[k] IN
              /\ \A i \in 1..Len(att.called) : att.called[i] # "store"
              /\ att.called[1] = "fetch"
              /\ (att.raised_in = "" /\ att.errors_after = att.errors_before) =>
                     att.called = <<"fetch", "parse", "extract">>
        /\ pipe.run_store =>
              Cardinality(FetchLogsPersisted) =
                  Cardinality({k \in 1..Len(pipe.attempts) :
                                  ~pipe.attempts[k].fetch_raised /\ ~pipe.attempts[k].save_raised})
        /\ (pipe.pc = "done" /\ ~pipe.discover_raised /\ pipe.yielded # <<>>) =>
              Len(pipe.attempts) = Len(pipe.yielded)

C23_Witness ==
    /\ pipe.dry_run
    /\ pipe.run_store
    /\ pipe.pc = "done"
    /\ Len(pipe.attempts) = 2
    /\ \A k \in 1..2 : pipe.attempts[k].called = <<"fetch", "parse", "extract">>
    /\ Cardinality(FetchLogsPersisted) = 2
    /\ pipe.run_log.status = "COMPLETED"

RunEndsPersisted == {k \in 1..Len(pipe.persisted) : pipe.persisted[k].call = "update_run_log"}

FetchLogsOfAttempt(k) ==
    {j \in FetchLogsPersisted : pipe.persisted[j].done = k - 1 /\ pipe.persisted[j].url = pipe.attempts[k].url}

\* C24: with a run store, the run_log row is created with status RUNNING
\* before discovery and before any fetch; every fetch attempt, successful or
\* failed, has exactly one persisted fetch_log row (attempts whose
\* save_fetch_log call itself raised are left out); and once run() has
\* returned the final run state was persisted exactly once, last, with status
\* COMPLETED or FAILED and ended_at set.
C24_RunStorePersistence ==
    (pipe.run_store /\ pipe.pc # "idle") =>
        /\ pipe.persisted # <<>>
        /\ pipe.persisted[1].call = "create_run_log"
        /\ pipe.persisted[1].status = "RUNNING"
        /\ ~pipe.persisted[1].discovered
        /\ pipe.persisted[1].done = 0
        /\ \A k \in 2..Len(pipe.persisted) : pipe.persisted[k].call # "create_run_log"
        /\ \A k \in 1..Len(pipe.attempts) :
              ~pipe.attempts[k].save_raised => Cardinality(FetchLogsOfAttempt(k)) = 1
        /\ pipe.pc = "done" =>
              /\ Cardinality(RunEndsPersisted) = 1
              /\ LastPersisted.call = "update_run_log"
              /\ LastPersisted.status \in {"COMPLETED", "FAILED"}
              /\ LastPersisted.ended
              /\ LastPersisted.status = pipe.run_log.status

(***************************************************************************)
(* quality/urlnorm.py on URL strings.  A string is the sequence of its     *)
(* parts: scheme, "://", host, ":" and port, path, "?" and the pairs       *)
(* key "=" value joined by "&", "#" and fragment; an empty part is absent. *)
(***************************************************************************)
\* first position of a part in a string, 0 when it does not occur
IndexOf(tok, text) ==
    IF \E i \in 1..Len(text) : text[i] = tok
      THEN CHOOSE i \in 1..Len(text) : text[i] = tok /\ \A j \in 1..(i - 1) : text[j] # tok
      ELSE 0

\* int(port_text); 0 stands for "no port"
PortNumber(port_text) ==
    CASE port_text = "80" -> 80
      [] port_text = "443" -> 443
      [] port_text = "8080" -> 8080
      [] OTHER -> 0

\* str(port)
PortText(port) ==
    CASE port = 80 -> "80"
      [] port = 443 -> "443"
      [] port = 8080 -> "8080"
      [] OTHER -> ""

\* parse_qsl(query, keep_blank_values=True) on the parts after "?"
RECURSIVE parse_qsl(_)
parse_qsl(q) ==
    IF q = <<>> THEN <<>>
    ELSE IF q[1] = "&" THEN parse_qsl(Tail(q))
    ELSE LET has_eq == Len(q) >= 2 /\ q[2] = "="
             has_value == has_eq /\ Len(q) >= 3 /\ q[3] # "&"
             value == IF has_value THEN q[3] ELSE ""
             used == IF has_value THEN 3 ELSE IF has_eq THEN 2 ELSE 1
         IN  << <<q[1], value>> >> \o parse_qsl(SubSeq(q, used + 1, Len(q)))

\* urlencode(pairs, doseq=True)
RECURSIVE urlencode(_)
urlencode(pairs) ==
    IF pairs = <<>> THEN <<>>
    ELSE LET p == Head(pairs)
             one == IF p[2] = "" THEN <<p[1], "=">> ELSE <<p[1], "=", p[2]>>
         IN  IF Len(pairs) = 1 THEN one ELSE one \o <<"&">> \o urlencode(Tail(pairs))

\* urlsplit(url) with .hostname and .port read off the netloc, and the query
\* already passed through parse_qsl
urlsplit(text) ==
    LET qpos == IndexOf("?", text)
        fpos == IndexOf("#", text)
        stop == IF qpos > 0 THEN qpos ELSE IF fpos > 0 THEN fpos ELSE Len(text) + 1
        loc == SubSeq(text, 3, stop - 1)
        has_port == Len(loc) >= 3 /\ loc[2] = ":"
        path_at == IF has_port THEN 4 ELSE 2
    IN  [scheme |-> text[1],
         host |-> IF loc = <<>> THEN "" ELSE loc[1],
         port |-> IF has_port THEN PortNumber(loc[3]) ELSE 0,
         path |-> IF Len(loc) >= path_at THEN loc[path_at] ELSE "",
         query |-> IF qpos = 0 THEN <<>>
                   ELSE parse_qsl(SubSeq(text, qpos + 1,
                                         IF fpos > 0 THEN fpos - 1 ELSE Len(text))),
         fragment |-> IF fpos > 0 /\ fpos < Len(text) THEN text[fpos + 1] ELSE ""]

\* urlunsplit((scheme, netloc, path, query, fragment))
urlunsplit(parts) ==
    <<parts.scheme, "://">>
      \o (IF parts.host = "" THEN <<>> ELSE <<parts.host>>)
      \o (IF parts.port = 0 THEN <<>> ELSE <<":", PortText(parts.port)>>)
      \o (IF parts.path = "" THEN <<>> ELSE <<parts.path>>)
      \o (IF parts.query = <<>> THEN <<>> ELSE <<"?">> \o urlencode(parts.query))
      \o (IF parts.fragment = "" THEN <<>> ELSE <<"#", parts.fragment>>)

\* canonicalize_url from string to string
CanonicalizeText(text) ==
    LET parsed == urlsplit(text) IN
    IF Lower(parsed.scheme) \notin {"http", "https"} THEN text
    ELSE urlunsplit(canonicalize_url(parsed))

UrlSchemes == {"http", "https", "HTTP", "ftp"}
UrlHosts == {"example.com", "EXAMPLE.com"}
UrlPorts == {"", "80", "443", "8080"}
UrlPaths == {"", "/", "/News/Item"}
UrlQueries ==
    {<<>>,
     <<"?", "b", "=", "2", "&", "a", "=", "1">>,
     <<"?", "b", "=", "2", "&", "UTM_source", "=", "abc", "&", "a", "=", "1", "&", "SessionId", "=", "abc">>,
     <<"?", "a", "&", "a", "=", "1">>}
UrlFragments == {<<>>, <<"#", "feed">>}

UrlTexts ==
    {<<s, "://", h>> \o (IF p = "" THEN <<>> ELSE <<":", p>>)
                    \o (IF pa = "" THEN <<>> ELSE <<pa>>) \o q \o f :
        s \in UrlSchemes, h \in UrlHosts, p \in UrlPorts, pa \in UrlPaths,
        q \in UrlQueries, f \in UrlFragments}

\* canonical = canonicalize_url(url)
Canonicalize(text) ==
    /\ norm.n = 0
    /\ norm' = [n |-> 1, input |-> text, output |-> CanonicalizeText(text)]
    /\ UNCHANGED <<notNorm, dbVars, nextId, now, lastOp, conn, robotsVars, fetcherVars>>

\* canonicalize_url(canonical): the function applied to its own result
Recanonicalize ==
    /\ norm.n = 1
    /\ norm' = [n |-> 2, input |-> norm.output, output |-> CanonicalizeText(norm.output)]
    /\ UNCHANGED <<notNorm, dbVars, nextId, now, lastOp, conn, robotsVars, fetcherVars>>

NextUrlnorm ==
    \/ \E text \in UrlTexts : Canonicalize(text)
    \/ Recanonicalize

SpecUrlnorm == Init /\ [][NextUrlnorm]_vars

\* C25: canonicalize_url is idempotent: applied to its own result it returns
\* that result, for every scheme, host case, port, path, query and fragment.
C25_CanonicalizeIdempotent ==
    norm.n = 2 => norm.output = norm.input

(***************************************************************************)
(* resolution/scoring.py.  Names are sequences of characters; scores and   *)
(* weights are counted in tenths (10 = 1.0).                               *)
(***************************************************************************)
MaxProfiles == 3

\* str.lower() on one character of the modelled names
LowerChar(c) ==
    CASE c = "J" -> "j"
      [] c = "D" -> "d"
      [] OTHER -> c

\* " ".join(value.strip().lower().split())
RECURSIVE SqueezeSpaces(_, _)
SqueezeSpaces(s, after_space) ==
    IF s = <<>> THEN <<>>
    ELSE IF Head(s) = " "
           THEN IF after_space \/ \A i \in 1..Len(s) : s[i] = " "
                  THEN SqueezeSpaces(Tail(s), after_space)
                  ELSE <<" ">> \o SqueezeSpaces(Tail(s), TRUE)
           ELSE <<LowerChar(Head(s))>> \o SqueezeSpaces(Tail(s), FALSE)

_normalize_name(value) == SqueezeSpaces(value, TRUE)

Min2(a, b) == IF a <= b THEN a ELSE b

Max2(a, b) == IF a >= b THEN a ELSE b

\* the inner loop over right: current grows from [i] to a full row
RECURSIVE LevRow(_, _, _, _)
LevRow(left_ch, right, previous, current) ==
    LET j == Len(current) IN
    IF j > Len(right) THEN current
    ELSE LET insertion == current[j] + 1
             deletion == previous[j + 1] + 1
             substitution == previous[j] + (IF left_ch = right[j] THEN 0 ELSE 1)
         IN  LevRow(left_ch, right, previous,
                    Append(current, Min2(insertion, Min2(deletion, substitution))))

\* the outer loop over left
RECURSIVE LevRows(_, _, _, _)
LevRows(left, right, i, previous) ==
    IF i > Len(left) THEN previous
    ELSE LevRows(left, right, i + 1, LevRow(left[i], right, previous, <<i>>))

_levenshtein_distance(left, right) ==
    IF left = right THEN 0
    ELSE IF left = <<>> THEN Len(right)
    ELSE IF right = <<>> THEN Len(left)
    ELSE LET last == LevRows(left, right, 1, [k \in 1..(Len(right) + 1) |-> k - 1])
         IN  last[Len(last)]

\* normalized_levenshtein_distance(left, right) <= 0.15, as a comparison of
\* the fraction distance / denominator with 15 / 100
DistanceAtMost15(left, right) ==
    LET normalized_left == _normalize_name(left)
        normalized_right == _normalize_name(right)
        denominator == Max2(Max2(Len(normalized_left), Len(normalized_right)), 1)
    IN  IF normalized_left = <<>> /\ normalized_right = <<>> THEN TRUE
        ELSE _levenshtein_distance(normalized_left, normalized_right) * 100 <= 15 * denominator

\* ReviewAuthor.from_mapping: domains and accounts lowercased, as sets
ReviewAuthor(id, shape) ==
    [id |-> id, canonical_name |-> shape.canonical_name,
     domains |-> {Lower(d) : d \in shape.domains},
     accounts |-> {Lower(a) : a \in shape.accounts},
     profile_urls |-> shape.profile_urls]

\* ReviewAuthor.profile_domains: the host of every profile URL that has "://"
profile_domains(author) ==
    {Lower(u[3]) : u \in {v \in author.profile_urls : Len(v) >= 3 /\ v[2] = "://"}}

RULE_1 == "rule_1_exact_account_match"
RULE_2 == "rule_2_same_domain_profile_link"
RULE_3 == "rule_3_exact_name_same_domain"
RULE_4 == "rule_4_similar_name_same_domain"
RULE_5 == "rule_5_same_domain_only"

\* the weight each rule adds, in tenths
RuleWeight(rule) ==
    CASE rule = RULE_1 -> 10
      [] rule = RULE_2 -> 9
      [] rule = RULE_3 -> 8
      [] rule = RULE_4 -> 6
      [] rule = RULE_5 -> 3

\* order of the strings uuid5(NAMESPACE_URL, "candidate|<left>|<right>")
CandidateId(left_id, right_id) == <<left_id, right_id>>

CandidateIdRank(id) ==
    CASE id = <<"a1", "a3">> -> 1
      [] id = <<"a1", "a4">> -> 2
      [] id = <<"a2", "a3">> -> 3
      [] id = <<"a3", "a4">> -> 4
      [] id = <<"a1", "a2">> -> 5
      [] id = <<"a2", "a4">> -> 6
      [] id = <<"a2", "a1">> -> 7
      [] id = <<"a3", "a1">> -> 8
      [] id = <<"a3", "a2">> -> 9
      [] id = <<"a4", "a1">> -> 10
      [] id = <<"a4", "a2">> -> 11
      [] id = <<"a4", "a3">> -> 12
      [] OTHER -> 13

\* order of the author ids as strings
IdRank(id) ==
    CASE id = "a1" -> 1
      [] id = "a2" -> 2
      [] id = "a3" -> 3
      [] id = "a4" -> 4
      [] OTHER -> 5

Rule5Fires_Always(shared_domains, breakdown) == shared_domains # {}

\* rule 5: shared domain, and neither rule 3 nor rule 4 is in the breakdown
Rule5Fires(shared_domains, breakdown) ==
    shared_domains # {} /\ RULE_3 \notin breakdown /\ RULE_4 \notin breakdown

\* score_candidate_pair: <<>> for None, <<candidate>> otherwise
score_candidate_pair(left, right) ==
    IF left.id = right.id THEN <<>>
    ELSE
      LET shared_accounts == left.accounts \cap right.accounts
          shared_domains == left.domains \cap right.domains
          profile_domains_ == shared_domains \cap profile_domains(left) \cap profile_domains(right)
          normalized_left == _normalize_name(left.canonical_name)
          normalized_right == _normalize_name(right.canonical_name)
          b1 == IF shared_accounts # {} THEN {RULE_1} ELSE {}
          s1 == IF shared_accounts # {} THEN 10 ELSE 0
          b2 == IF profile_domains_ # {} THEN b1 \cup {RULE_2} ELSE b1
          s2 == IF profile_domains_ # {} THEN s1 + 9 ELSE s1
          r3 == shared_domains # {} /\ normalized_left # <<>> /\ normalized_left = normalized_right
          b3 == IF r3 THEN b2 \cup {RULE_3} ELSE b2
          s3 == IF r3 THEN s2 + 8 ELSE s2
          r4 == /\ shared_domains # {} /\ normalized_left # <<>> /\ normalized_right # <<>>
                /\ normalized_left # normalized_right
                /\ DistanceAtMost15(normalized_left, normalized_right)
          b4 == IF r4 THEN b3 \cup {RULE_4} ELSE b3
          s4 == IF r4 THEN s3 + 6 ELSE s3
          r5 == Rule5Fires(shared_domains, b4)
          b5 == IF r5 THEN b4 \cup {RULE_5} ELSE b4
          s5 == IF r5 THEN s4 + 3 ELSE s4
          score == Min2(s5, 10)
      IN  IF score < 5 THEN <<>>
          ELSE << [id |-> CandidateId(left.id, right.id), from_author |-> left,
                   to_author |-> right, score |-> score, scoring_breakdown |-> b5] >>

\* authors.sort(key=lambda item: item.id)
RECURSIVE SortAuthors(_)
SortAuthors(authors_) ==
    IF authors_ = <<>> THEN <<>>
    ELSE LET least == CHOOSE i \in 1..Len(authors_) :
                        \A j \in 1..Len(authors_) :
                            \/ IdRank(authors_[i].id) < IdRank(authors_[j].id)
                            \/ IdRank(authors_[i].id) = IdRank(authors_[j].id) /\ i <= j
         IN  <<authors_[least]>> \o
             SortAuthors([k \in 1..(Len(authors_) - 1) |->
                            IF k < least THEN authors_[k] ELSE authors_[k + 1]])

\* candidate order of candidates.sort(key=lambda item: (-item.score, item.id))
CandidateLeq(c, d) ==
    \/ c.score > d.score
    \/ c.score = d.score /\ CandidateIdRank(c.id) <= CandidateIdRank(d.id)

RECURSIVE InsertCandidate(_, _)
InsertCandidate(c, sorted) ==
    IF sorted = <<>> THEN <<c>>
    ELSE IF ~CandidateLeq(Head(sorted), c)
           THEN <<c>> \o sorted
           ELSE <<Head(sorted)>> \o InsertCandidate(c, Tail(sorted))

RECURSIVE SortCandidates(_)
SortCandidates(cs) ==
    IF cs = <<>> THEN <<>>
    ELSE InsertCandidate(cs[Len(cs)], SortCandidates(SubSeq(cs, 1, Len(cs) - 1)))

\* for left, right in combinations(authors, 2): the pairs i < j in list order
RECURSIVE ScorePairs(_, _, _, _)
ScorePairs(authors_, i, j, min_score) ==
    IF i >= Len(authors_) THEN <<>>
    ELSE IF j > Len(authors_) THEN ScorePairs(authors_, i + 1, i + 2, min_score)
    ELSE LET candidate == score_candidate_pair(authors_[i], authors_[j])
             kept == IF candidate # <<>> /\ candidate[1].score >= min_score
                       THEN candidate ELSE <<>>
         IN  kept \o ScorePairs(authors_, i, j + 1, min_score)

build_candidates(author_profiles, min_score) ==
    SortCandidates(ScorePairs(SortAuthors(author_profiles), 1, 2, min_score))

ProfileIds == {"a1", "a2", "a3", "a4"}

JaneDoe == <<"J", "a", "n", "e", " ", "D", "o", "e">>
JaneDoeSpaced == <<" ", "j", "a", "n", "e", " ", " ", "d", "o", "e">>
JaneDow == <<"J", "a", "n", "e", " ", "D", "o", "w">>
JDoe == <<"J", ".", " ", "D", "o", "e">>
JDow == <<"J", ".", " ", "D", "o", "w">>

ProfileShapes ==
    {[canonical_name |-> JaneDoe, domains |-> {"example.com"}, accounts |-> {},
      profile_urls |-> {}],
     [canonical_name |-> JaneDoeSpaced, domains |-> {"EXAMPLE.com"},
      accounts |-> {"jane@example.com"},
      profile_urls |-> {<<"https", "://", "EXAMPLE.com", "/author/jane">>}],
     [canonical_name |-> JaneDow, domains |-> {"example.com", "other.org"},
      accounts |-> {"jane@example.com"},
      profile_urls |-> {<<"https", "://", "example.com", "/people/jd">>}],
     [canonical_name |-> JDoe, domains |-> {"example.com", "other.org"}, accounts |-> {},
      profile_urls |-> {<<"https", "://", "example.com", "/bio">>}],
     [canonical_name |-> JDow, domains |-> {"other.org"}, accounts |-> {},
      profile_urls |-> {<<"example.com/author/jd">>}],
     [canonical_name |-> <<>>, domains |-> {"example.com"}, accounts |-> {},
      profile_urls |-> {}]}

\* lists of profiles with distinct ids, in any order
ProfileLists ==
    UNION {{[i \in 1..n |-> ReviewAuthor(ids[i], shapes[i])] :
               ids \in {f \in [1..n -> ProfileIds] : \A i, j \in 1..n : i # j => f[i] # f[j]},
               shapes \in [1..n -> ProfileShapes]} : n \in 2..MaxProfiles}

\* --min-score, in tenths
MinScores == {0, 6, 9}

BuildCandidates(author_profiles, min_score) ==
    /\ cand.n = 0
    /\ cand' = [n |-> 1, profiles |-> author_profiles, min_score |-> min_score,
                output |-> build_candidates(author_profiles, min_score)]
    /\ UNCHANGED <<notCand, dbVars, nextId, now, lastOp, conn, robotsVars, fetcherVars>>

\* one build_candidates call per behaviour
NextScoring ==
    /\ cand.n = 0
    /\ \E author_profiles \in ProfileLists, min_score \in MinScores :
          BuildCandidates(author_profiles, min_score)

SpecScoring == Init /\ [][NextScoring]_vars

\* the rules of the scoring table that fire for a pair of profiles
FiredRules(p, q) ==
    LET shared_hosts == p.domains \cap q.domains
        name_p == _normalize_name(p.canonical_name)
        name_q == _normalize_name(q.canonical_name)
        fires_1 == p.accounts \cap q.accounts # {}
        fires_2 == \E h \in shared_hosts : h \in profile_domains(p) /\ h \in profile_domains(q)
        fires_3 == shared_hosts # {} /\ name_p # <<>> /\ name_p = name_q
        fires_4 == /\ shared_hosts # {} /\ name_p # <<>> /\ name_q # <<>>
                   /\ ~fires_3 /\ DistanceAtMost15(name_p, name_q)
        fires_5 == shared_hosts # {} /\ ~fires_3 /\ ~fires_4
    IN  {r \in {RULE_1, RULE_2, RULE_3, RULE_4, RULE_5} :
            \/ r = RULE_1 /\ fires_1
            \/ r = RULE_2 /\ fires_2
            \/ r = RULE_3 /\ fires_3
            \/ r = RULE_4 /\ fires_4
            \/ r = RULE_5 /\ fires_5}

RECURSIVE SumWeights(_)
SumWeights(rules) ==
    IF rules = {} THEN 0
    ELSE LET r == CHOOSE x \in rules : TRUE
         IN  RuleWeight(r) + SumWeights(rules \ {r})

CappedScore(rules) == Min2(10, SumWeights(rules))

ProfileSet == {cand.profiles[i] : i \in 1..Len(cand.profiles)}

OutputSet == {cand.output[i] : i \in 1..Len(cand.output)}

\* C28: for every pair of distinct profiles the score is min(1.0, sum of the
\* weights of the rules that fire), rule 4 never fires with rule 3 and rule 5
\* never with rule 3 or rule 4; a candidate is emitted if and only if its
\* score is at least 0.5 and at least min_score; each unordered pair gives at
\* most one candidate, oriented from the smaller id to the larger id, and the
\* output is sorted by (-score, id).
C28_CandidateScoring ==
    cand.n = 1 =>
      /\ \A c \in OutputSet :
            /\ c.from_author \in ProfileSet /\ c.to_author \in ProfileSet
            /\ IdRank(c.from_author.id) < IdRank(c.to_author.id)
            /\ c.scoring_breakdown = FiredRules(c.from_author, c.to_author)
            /\ c.score = CappedScore(c.scoring_breakdown)
            /\ RULE_4 \in c.scoring_breakdown => RULE_3 \notin c.scoring_breakdown
            /\ RULE_5 \in c.scoring_breakdown =>
                  RULE_3 \notin c.scoring_breakdown /\ RULE_4 \notin c.scoring_breakdown
            /\ c.score >= 5 /\ c.score >= cand.min_score
      /\ \A p, q \in ProfileSet :
            IdRank(p.id) < IdRank(q.id) =>
              ((\E c \in OutputSet : c.from_author = p /\ c.to_author = q)
                 <=> /\ CappedScore(FiredRules(p, q)) >= 5
                     /\ CappedScore(FiredRules(p, q)) >= cand.min_score)
      /\ \A i, j \in 1..Len(cand.output) :
            i < j =>
              /\ {cand.output[i].from_author.id, cand.output[i].to_author.id}
                   # {cand.output[j].from_author.id, cand.output[j].to_author.id}
              /\ \/ cand.output[i].score > cand.output[j].score
                 \/ /\ cand.output[i].score = cand.output[j].score
                    /\ CandidateIdRank(cand.output[i].id) < CandidateIdRank(cand.output[j].id)

\* three profiles given out of id order: a capped candidate where rules 1, 2
\* and 4 fire, then a rule 3 candidate, then a rule 4 candidate
C28_Witness ==
    /\ cand.n = 1 /\ Len(cand.profiles) = 3
    /\ IdRank(cand.profiles[1].id) > IdRank(cand.profiles[2].id)
    /\ Len(cand.output) = 3
    /\ cand.output[1].scoring_breakdown = {RULE_1, RULE_2, RULE_4}
    /\ cand.output[1].score = 10
    /\ cand.output[2].scoring_breakdown = {RULE_3}
    /\ cand.output[2].score = 8
    /\ cand.output[3].scoring_breakdown = {RULE_4}
    /\ cand.output[3].score = 6

\* a pair that scores at least 0.5 is left out because of min_score, and a
\* pair where only rule 5 fires is left out because of the 0.5 threshold
C28_WitnessLeftOut ==
    /\ cand.n = 1 /\ cand.min_score = 9 /\ Len(cand.output) = 1
    /\ \E p, q \in ProfileSet :
          IdRank(p.id) < IdRank(q.id) /\ CappedScore(FiredRules(p, q)) = 8
    /\ \E p, q \in ProfileSet :
          IdRank(p.id) < IdRank(q.id) /\ FiredRules(p, q) = {RULE_5}

\* three candidates of equal score, ordered by candidate id and not by the
\* order of their author ids
C28_WitnessTie ==
    /\ cand.n = 1 /\ Len(cand.output) = 3
    /\ cand.output[1].score = cand.output[3].score
    /\ cand.output[1].id = CandidateId("a1", "a3")
    /\ cand.output[2].id = CandidateId("a2", "a3")
    /\ cand.output[3].id = CandidateId("a1", "a2")

\* one edit in six characters is above 0.15: only rule 5 fires and the pair
\* is left out
C28_WitnessNames ==
    /\ cand.n = 1 /\ cand.min_score = 0
    /\ \E p, q \in ProfileSet :
          /\ p.canonical_name = JDoe /\ q.canonical_name = JDow
          /\ IdRank(p.id) < IdRank(q.id)
          /\ FiredRules(p, q) = {RULE_5}
          /\ ~\E c \in OutputSet : c.from_author = p /\ c.to_author = q

\* two profiles without a name on one host get rule 5 only
C28_WitnessNoName ==
    /\ cand.n = 1 /\ cand.min_score = 0
    /\ \E p, q \in ProfileSet :
          /\ p.canonical_name = <<>> /\ q.canonical_name = <<>>
          /\ IdRank(p.id) < IdRank(q.id)
          /\ FiredRules(p, q) = {RULE_5}
          /\ ~\E c \in OutputSet : c.from_author = p /\ c.to_author = q

(***************************************************************************)
(* extractor/article.py _truncate_with_ellipsis and the ArticleDraft       *)
(* snippet validator, by length.  A text is its words, given by their      *)
(* lengths, with lead whitespace characters in front and gap whitespace    *)
(* characters between two words; a result is the number of characters      *)
(* kept and whether the one-character ellipsis follows.                    *)
(***************************************************************************)
MaxWords == 2

WordLengths == {1, 700, 799, 800, 1499, 1500, 2000}

Texts ==
    {[lead |-> 0, gap |-> 1, words |-> <<>>]} \cup
    UNION {{[lead |-> lead, gap |-> gap, words |-> words] :
               lead \in {0, 2}, gap \in {1, 3}, words \in [1..n -> WordLengths]}
           : n \in 1..MaxWords}

\* text.split(): the words, whatever whitespace separates or surrounds them
SplitWords(text) == text.words

RECURSIVE SumLengths(_)
SumLengths(words) ==
    IF words = <<>> THEN 0 ELSE Head(words) + SumLengths(Tail(words))

\* len(" ".join(words))
JoinedLength(words) ==
    IF words = <<>> THEN 0 ELSE SumLengths(words) + Len(words) - 1

\* position of the space that follows word k in the joined text
SpaceAfter(words, k) == JoinedLength(SubSeq(words, 1, k)) + 1

\* normalized[:max_chars] of a text longer than max_chars, then the cut at
\* the last space and rstrip(), as the number of characters kept
TrimmedLength(words, max_chars) ==
    LET spaces == {SpaceAfter(words, k) : k \in 1..(Len(words) - 1)}
        inside == {p \in spaces : p <= max_chars}
    IN  IF max_chars \in inside THEN max_chars - 1
        ELSE IF inside # {} THEN (CHOOSE p \in inside : \A q \in inside : q <= p) - 1
        ELSE max_chars

TruncateLengths(text, max_chars) ==
    LET words == SplitWords(text)
    IN  IF JoinedLength(words) <= max_chars
          THEN [chars |-> JoinedLength(words), ellipsis |-> FALSE]
          ELSE [chars |-> TrimmedLength(words, max_chars), ellipsis |-> TRUE]

\* len() of a result
ResultLength(r) == r.chars + (IF r.ellipsis THEN 1 ELSE 0)

\* ArticleDraft.validate_snippet_length: v[:1500] + ellipsis above 1500
validate_snippet_length(v) ==
    IF ResultLength(v) > 0 /\ ResultLength(v) > 1500
      THEN [chars |-> Min2(ResultLength(v), 1500), ellipsis |-> TRUE]
      ELSE v

\* ArticleExtractStage.extract: the snippet of the draft from parsed.text
ExtractSnippet(text) ==
    /\ trunc.n = 0
    /\ JoinedLength(SplitWords(text)) + text.lead > 0
    /\ trunc' = [n |-> 1, text |-> <<text>>,
                 snippet |-> <<validate_snippet_length(
                                  TruncateLengths(text, SNIPPET_MAX_CHARS))>>,
                 extracted_text |-> <<>>]
    /\ UNCHANGED <<notTrunc, dbVars, nextId, now, lastOp, conn, robotsVars, fetcherVars>>

\* ArticleExtractStage._build_evidence: the extracted_text of an evidence item
BuildEvidence(text) ==
    /\ trunc.n = 0
    /\ trunc' = [n |-> 1, text |-> <<text>>, snippet |-> <<>>,
                 extracted_text |-> <<TruncateLengths(text, EVIDENCE_SNIPPET_MAX_CHARS)>>]
    /\ UNCHANGED <<notTrunc, dbVars, nextId, now, lastOp, conn, robotsVars, fetcherVars>>

NextTruncate ==
    \/ \E text \in Texts : ExtractSnippet(text)
    \/ \E text \in Texts : BuildEvidence(text)

SpecTruncate == Init /\ [][NextTruncate]_vars

\* C29: for every input text, with or without spaces, the snippet of the
\* draft has at most 1500 characters and every evidence extracted_text has at
\* most 800 characters, counting the ellipsis appended by truncation.
C29_LengthsBounded ==
    /\ \A i \in 1..Len(trunc.snippet) : ResultLength(trunc.snippet[i]) <= 1500
    /\ \A i \in 1..Len(trunc.extracted_text) : ResultLength(trunc.extracted_text[i]) <= 800

\* a truncated text keeps its bound whenever a space lies within the first
\* max_chars characters of the normalized text
C29_BoundedWithSpace ==
    \A i \in 1..Len(trunc.text) :
        LET words == SplitWords(trunc.text[i]) IN
        /\ (Len(words) >= 2 /\ SpaceAfter(words, 1) <= 1500) =>
              \A j \in 1..Len(trunc.snippet) : ResultLength(trunc.snippet[j]) <= 1500
        /\ (Len(words) >= 2 /\ SpaceAfter(words, 1) <= 800) =>
              \A j \in 1..Len(trunc.extracted_text) :
                  ResultLength(trunc.extracted_text[j]) <= 800

(***************************************************************************)
(* author_collector/cli.py: review-queue and review apply, with            *)
(* storage/sqlite.py save_merge_decision as a function of the tables.      *)
(***************************************************************************)
MaxEdits == 2

\* JSON values of the "decision" field: their type and their str()
JsonNull == [type |-> "null", text |-> "None"]
JsonFalse == [type |-> "bool", text |-> "False"]
JsonTrue == [type |-> "bool", text |-> "True"]
JsonString(t) == [type |-> "string", text |-> t]

RawDecisions ==
    {JsonNull, JsonFalse, JsonTrue, JsonString("accept"), JsonString(" ACCEPT "),
     JsonString("reject"), JsonString("hold"), JsonString("maybe"), JsonString(""),
     JsonString("  ")}

\* bool(value) is False
Falsy(v) ==
    \/ v.type = "null"
    \/ v.type = "bool" /\ v.text = "False"
    \/ v.type = "string" /\ v.text = ""

\* text.strip().lower() on the modelled decisions
StripLower(text) ==
    CASE text = " ACCEPT " -> "accept"
      [] text = "  " -> ""
      [] text = "True" -> "true"
      [] OTHER -> text

\* str(item.get("decision") or "").strip().lower()
DecisionText(item) ==
    IF Falsy(item.decision) THEN "" ELSE StripLower(item.decision.text)

HeldDecisions_OnlyHold == {"hold"}

\* if decision in {"", "hold"}
HeldDecisions == {"", "hold"}

\* Candidate.to_dict: one object of "candidates" in review.json
CandidateItem(c) ==
    [is_dict |-> TRUE, id |-> c.id, from_id |-> c.from_author.id,
     to_id |-> c.to_author.id, evidence_is_list |-> TRUE, decision |-> JsonNull]

save_merge_decision_Replace(decisions, author_rows, d) ==
    IF d.from_author_id \notin author_rows \/ d.to_author_id \notin author_rows
      THEN [raised |-> TRUE, inserted |-> FALSE, decisions |-> decisions]
      ELSE [raised |-> FALSE, inserted |-> TRUE,
            decisions |-> {m \in decisions : m.id # d.id} \cup {d}]

\* SQLiteRunStore.save_merge_decision: ValueError without both authors,
\* INSERT OR IGNORE on the primary key id, True when a row was inserted
save_merge_decision(decisions, author_rows, d) ==
    IF d.from_author_id \notin author_rows \/ d.to_author_id \notin author_rows
      THEN [raised |-> TRUE, inserted |-> FALSE, decisions |-> decisions]
      ELSE IF \E m \in decisions : m.id = d.id
      THEN [raised |-> FALSE, inserted |-> FALSE, decisions |-> decisions]
      ELSE [raised |-> FALSE, inserted |-> TRUE, decisions |-> decisions \cup {d}]

\* the state of the loop of _cmd_review_apply
ApplyStart(decisions, author_rows) ==
    [decisions |-> decisions, authors |-> author_rows, accepted |-> 0, duplicates |-> 0,
     rejected |-> 0, held |-> 0, invalid |-> 0, raised |-> FALSE]

\* one pass of the loop body
ApplyItem(item, st, run_id) ==
    IF ~item.is_dict THEN [st EXCEPT !.invalid = @ + 1]
    ELSE LET decision == DecisionText(item) IN
         IF decision = "reject" THEN [st EXCEPT !.rejected = @ + 1]
         ELSE IF decision \in HeldDecisions THEN [st EXCEPT !.held = @ + 1]
         ELSE IF decision # "accept" THEN [st EXCEPT !.invalid = @ + 1]
         ELSE IF item.from_id = "" \/ item.to_id = "" THEN [st EXCEPT !.invalid = @ + 1]
         ELSE LET ensured == st.authors \cup {item.from_id, item.to_id}
                  candidate_id == IF item.id # <<>> THEN item.id
                                  ELSE <<item.from_id, ":", item.to_id>>
                  saved == save_merge_decision(st.decisions, ensured,
                               [id |-> candidate_id, from_author_id |-> item.from_id,
                                to_author_id |-> item.to_id, run_id |-> run_id])
              IN  IF ~item.evidence_is_list
                    THEN [st EXCEPT !.authors = ensured, !.raised = TRUE]
                    ELSE [st EXCEPT !.authors = ensured,
                                    !.decisions = saved.decisions,
                                    !.accepted = IF saved.inserted THEN @ + 1 ELSE @,
                                    !.duplicates = IF saved.inserted THEN @ ELSE @ + 1]

\* for item in candidates, left by the first exception
RECURSIVE ApplyItems(_, _, _)
ApplyItems(items, st, run_id) ==
    IF items = <<>> \/ st.raised THEN st
    ELSE ApplyItems(Tail(items), ApplyItem(Head(items), st, run_id), run_id)

\* the author groups list_resolution_author_profiles builds from the stored
\* articles, whose ids it writes to authors
QueueProfiles ==
    {<<ReviewAuthor("a1", ps[1]), ReviewAuthor("a2", ps[2])>> : ps \in
        {<<s1, s2>> \in ProfileShapes \X ProfileShapes :
            s1.canonical_name = JaneDoe /\ s2.canonical_name \in {JaneDoeSpaced, JDow}}}
    \cup
    {<<ReviewAuthor("a1", ps[1]), ReviewAuthor("a2", ps[2]), ReviewAuthor("a3", ps[3])>> : ps \in
        {<<s1, s2, s3>> \in ProfileShapes \X ProfileShapes \X ProfileShapes :
            /\ s1.canonical_name = JaneDoe /\ s2.canonical_name = JaneDoeSpaced
            /\ s3.canonical_name = JaneDow}}

\* _cmd_review_queue: profiles, candidates, review.json
ReviewQueue(profiles, min_score) ==
    /\ ~review.queued
    /\ LET candidates == build_candidates(profiles, min_score)
       IN  review' = [review EXCEPT !.queued = TRUE,
                         !.file = [i \in 1..Len(candidates) |-> CandidateItem(candidates[i])]]
    /\ authors' = authors \cup {profiles[i].id : i \in 1..Len(profiles)}
    /\ UNCHANGED <<notReview, articles, versions, evidence, fetch_log, merge_decisions,
                   run_log, nextId, now, lastOp, conn, robotsVars, fetcherVars>>

\* what a reviewer may do to one candidate of review.json
ItemEdits(item) ==
    {[item EXCEPT !.decision = d] : d \in RawDecisions}
    \cup {[item EXCEPT !.from_id = ""], [item EXCEPT !.id = <<>>],
          [item EXCEPT !.evidence_is_list = FALSE],
          [item EXCEPT !.is_dict = FALSE]}

\* the reviewer edits review.json by hand
EditReview(i, edited) ==
    /\ review.queued
    /\ review.edits < MaxEdits
    /\ i \in 1..Len(review.file)
    /\ edited \in ItemEdits(review.file[i])
    /\ edited # review.file[i]
    /\ review' = [review EXCEPT !.file[i] = edited, !.edits = @ + 1]
    /\ UNCHANGED <<notReview, dbVars, nextId, now, lastOp, conn, robotsVars, fetcherVars>>

\* _cmd_review_apply and main(): exit code 1 on any exception
ReviewApply(run_id) ==
    /\ review.queued
    /\ ~RunExists(run_id)
    /\ LET st == ApplyItems(review.file, ApplyStart(merge_decisions, authors), run_id)
           exit_code == IF st.raised \/ st.invalid # 0 THEN 1 ELSE 0
       IN  /\ merge_decisions' = st.decisions
           /\ authors' = st.authors
           /\ run_log' = run_log \cup
                {IF st.raised
                   THEN [id |-> run_id, status |-> "RUNNING", ended_at |-> NoTime,
                         error_message |-> NULL]
                   ELSE [id |-> run_id, status |-> "COMPLETED", ended_at |-> now + 1,
                         error_message |-> IF st.invalid # 0
                                             THEN "invalid candidate rows skipped"
                                             ELSE NULL]}
           /\ review' = [review EXCEPT !.history = Append(@,
                            [run_id |-> run_id, file |-> review.file,
                             before |-> merge_decisions, after |-> st.decisions,
                             accepted |-> st.accepted, duplicates |-> st.duplicates,
                             rejected |-> st.rejected, held |-> st.held,
                             invalid |-> st.invalid, raised |-> st.raised,
                             exit_code |-> exit_code])]
    /\ now' = now + 1
    /\ UNCHANGED <<notReview, articles, versions, evidence, fetch_log, nextId, lastOp,
                   conn, robotsVars, fetcherVars>>

NextReview ==
    \/ \E profiles \in QueueProfiles, min_score \in {6, 9} : ReviewQueue(profiles, min_score)
    \/ \E i \in 1..Len(review.file), edited \in UNION {ItemEdits(review.file[k]) : k \in 1..Len(review.file)} :
          EditReview(i, edited)
    \/ \E run_id \in RunIds : ReviewApply(run_id)

SpecReview == Init /\ [][NextReview]_vars

\* a candidate review apply hands to save_merge_decision
IsAccepted(item) ==
    /\ item.is_dict /\ DecisionText(item) = "accept"
    /\ item.from_id # "" /\ item.to_id # ""

\* the id review apply stores a candidate under
StoredId(item) == IF item.id # <<>> THEN item.id ELSE <<item.from_id, ":", item.to_id>>

\* C26: save_merge_decision with an id that is already stored inserts nothing,
\* returns false (the candidate is counted as a duplicate) and leaves the
\* stored row, its run_id included, unchanged; replaying the same review file
\* under a new run_id reports accepted=0 and as duplicates every candidate the
\* first apply accepted (duplicates=1 for one accepted candidate), and the
\* table still holds exactly one row for each id.
C26_MergeDecisionIdempotent ==
    /\ \A m1, m2 \in merge_decisions : m1.id = m2.id => m1 = m2
    /\ \A k \in 1..Len(review.history) :
          LET h == review.history[k]
              added == h.after \ h.before
              handed == {i \in 1..Len(h.file) : IsAccepted(h.file[i])}
          IN  /\ h.before \subseteq h.after
              /\ \A m \in added : m.run_id = h.run_id /\ ~\E b \in h.before : b.id = m.id
              /\ ~h.raised =>
                    /\ h.accepted = Cardinality(added)
                    /\ h.accepted + h.duplicates = Cardinality(handed)
                    /\ \A i \in handed :
                          (\E b \in h.before : b.id = StoredId(h.file[i])) =>
                              h.duplicates >= 1
              /\ \A j \in 1..(k - 1) :
                    LET first == review.history[j] IN
                    (first.file = h.file /\ ~first.raised) =>
                        /\ h.run_id # first.run_id
                        /\ h.accepted = 0
                        /\ h.duplicates = first.accepted + first.duplicates
                        /\ h.after = first.after

\* one accepted candidate applied under run-1 and replayed under run-2: the
\* replay reports duplicates=1, accepted=0 and the row keeps run-1
C26_Witness ==
    /\ Len(review.history) = 2
    /\ review.history[1].file = review.history[2].file
    /\ review.history[1].accepted = 1 /\ review.history[1].duplicates = 0
    /\ review.history[2].accepted = 0 /\ review.history[2].duplicates = 1
    /\ review.history[1].run_id # review.history[2].run_id
    /\ Cardinality(merge_decisions) = 1
    /\ \A m \in merge_decisions : m.run_id = review.history[1].run_id

\* the rows one apply added to merge_decisions
AddedRows(h) == h.after \ h.before

\* the candidates of an applied file that are no JSON object or that are
\* accepted without a from or to author id
MalformedItems(h) ==
    {i \in 1..Len(h.file) :
        \/ ~h.file[i].is_dict
        \/ /\ DecisionText(h.file[i]) = "accept"
           /\ h.file[i].from_id = "" \/ h.file[i].to_id = ""}

\* the well-formed candidates whose decision, trimmed and lower-cased, is d
ItemsDeciding(h, d) ==
    {i \in 1..Len(h.file) : i \notin MalformedItems(h) /\ DecisionText(h.file[i]) = d}

\* the well-formed candidates whose decision is the JSON value null
NullItems(h) ==
    {i \in 1..Len(h.file) : i \notin MalformedItems(h) /\ h.file[i].decision = JsonNull}

\* what every apply does whatever it counts as invalid: it only adds rows, and
\* only rows of accepted candidates, and the accepted rows are there when it
\* ends without an exception
AppliesOnlyAccepted(h) ==
    /\ h.before \subseteq h.after
    /\ \A m \in AddedRows(h) :
          \E i \in ItemsDeciding(h, "accept") :
              /\ m.id = StoredId(h.file[i]) /\ m.run_id = h.run_id
              /\ m.from_author_id = h.file[i].from_id /\ m.to_author_id = h.file[i].to_id
    /\ ~h.raised =>
          \A i \in ItemsDeciding(h, "accept") : \E m \in h.after : m.id = StoredId(h.file[i])

\* C27 as stated: generating the queue never writes a merge_decisions row;
\* review apply writes a row only for candidates whose decision is accept;
\* reject, hold and null leave merge_decisions unchanged; any other decision
\* value, or a malformed candidate, is counted invalid and makes the command
\* exit 1 while the accepted rows of the same file remain applied.
C27_ManualOnly ==
    /\ review.history = <<>> => merge_decisions = {}
    /\ \A k \in 1..Len(review.history) :
          LET h == review.history[k]
              no_ops == ItemsDeciding(h, "reject") \cup ItemsDeciding(h, "hold") \cup NullItems(h)
              others == (1..Len(h.file)) \ (ItemsDeciding(h, "accept") \cup no_ops)
          IN  /\ AppliesOnlyAccepted(h)
              /\ ~h.raised => h.invalid = Cardinality(others)
              /\ others # {} => h.exit_code = 1

\* C27 amended: decisions are read as text, trimmed and lower-cased, and a
\* null, false or blank decision counts as hold; generating the queue never
\* writes a merge_decisions row; review apply writes a row only for candidates
\* whose decision is accept; reject and hold leave merge_decisions unchanged;
\* any other decision, a candidate that is no object and an accepted candidate
\* without a from or to author id are counted invalid by an apply that runs
\* to its end and make the command exit 1, as an exception does, while the
\* accepted rows of the same file remain applied.
C27_ManualOnlyAmended ==
    /\ review.history = <<>> => merge_decisions = {}
    /\ \A k \in 1..Len(review.history) :
          LET h == review.history[k]
              no_ops == ItemsDeciding(h, "reject") \cup ItemsDeciding(h, "hold")
                            \cup ItemsDeciding(h, "")
              others == (1..Len(h.file)) \ (ItemsDeciding(h, "accept") \cup no_ops)
          IN  /\ AppliesOnlyAccepted(h)
              /\ ~h.raised =>
                    /\ h.invalid = Cardinality(others)
                    /\ h.rejected = Cardinality(ItemsDeciding(h, "reject"))
                    /\ h.held = Cardinality(ItemsDeciding(h, "hold") \cup ItemsDeciding(h, ""))
              /\ (others # {} \/ h.raised) => h.exit_code = 1

\* one file with an accepted candidate, a candidate decided "maybe" and a
\* candidate left at null: one row written, one invalid, one held, exit 1
C27_Witness ==
    /\ Len(review.history) = 1
    /\ ~review.history[1].raised
    /\ Len(review.history[1].file) = 3
    /\ review.history[1].accepted = 1
    /\ review.history[1].invalid = 1
    /\ review.history[1].held = 1
    /\ review.history[1].exit_code = 1
    /\ Cardinality(merge_decisions) = 1
    /\ \E i \in 1..3 : review.history[1].file[i].decision = JsonString("maybe")

(***************************************************************************)
(* core/pipeline.py Pipeline.run with SQLiteStoreStage as its store stage  *)
(* and a SQLiteRunStore: every URL that is fetched, parsed and extracted   *)
(* is handed to upsert_article, and the run counts what the store returns. *)
(***************************************************************************)
MaxFeed == 2

FirstContent == CHOOSE c \in Contents : c.title = "Title V1"

\* what one discovered URL leads to: a draft with this content, or, with
\* ok = FALSE, a fetch result with an error code
Pages ==
    {[url |-> u, ok |-> TRUE, content |-> c] : u \in {U1, U2, U3}, c \in Contents}
    \cup {[url |-> u, ok |-> FALSE, content |-> FirstContent] : u \in {U1, U2, U3}}

\* discovery yields de-duplicated URLs
Feeds ==
    UNION {{f \in [1..n -> Pages] : \A i, j \in 1..n : i # j => f[i].url # f[j].url}
           : n \in 0..MaxFeed}

SyncSource == "rss:test"

\* the draft the extract stage builds for a page
PageDraft(page) ==
    [canonical_url |-> page.url, source_id |-> SyncSource, title |-> page.content.title,
     author_hint |-> page.content.author_hint, published_at |-> page.content.published_at,
     snippet |-> page.content.snippet]

\* the evidence the extract stage supplies with the draft
PageEvidence(page) ==
    CHOOSE shape \in EvidenceShapes : shape[1].extracted_text = page.content.title

NewIncrement(created) == IF created THEN 1 ELSE 0

UpdatedIncrement_Else(created, updated) == IF ~created THEN 1 ELSE 0

\* if updated: run_log.updated_articles_count += 1
UpdatedIncrement(created, updated) == IF updated THEN 1 ELSE 0

\* the RunLog a finished run returns, with the tables before and after it
RunSummary(s, articles_after, versions_after) ==
    [run_id |-> s.run_id, feed |-> s.feed,
     new_articles_count |-> s.new_articles_count,
     updated_articles_count |-> s.updated_articles_count,
     error_count |-> s.error_count,
     articles_before |-> s.articles_before, versions_before |-> s.versions_before,
     articles_after |-> articles_after, versions_after |-> versions_after]

\* run(): create_run_log, discovery, and the return when no URL was discovered
SyncStart(run_id, feed) ==
    /\ sync.pc = "idle"
    /\ ~RunExists(run_id)
    /\ LET started == [sync EXCEPT !.run_id = run_id, !.feed = feed, !.pos = 1,
                                   !.new_articles_count = 0,
                                   !.updated_articles_count = 0, !.error_count = 0,
                                   !.articles_before = articles,
                                   !.versions_before = versions]
       IN  IF feed = <<>>
             THEN /\ sync' = [started EXCEPT !.runs = Append(@, RunSummary(started, articles, versions))]
                  /\ run_log' = run_log \cup {[id |-> run_id, status |-> "COMPLETED",
                                               ended_at |-> now + 1,
                                               error_message |-> "No URLs discovered"]}
             ELSE /\ sync' = [started EXCEPT !.pc = "loop"]
                  /\ run_log' = run_log \cup {[id |-> run_id, status |-> "RUNNING",
                                               ended_at |-> NoTime, error_message |-> NULL]}
    /\ now' = now + 1
    /\ UNCHANGED <<notSync, articles, versions, evidence, fetch_log, merge_decisions, authors,
                   nextId, lastOp, conn, robotsVars, fetcherVars>>

\* one iteration of "for url in urls": a failed fetch result counts an error,
\* anything else reaches self.store.store(draft, evidence_list, run_id)
SyncUrl ==
    /\ sync.pc = "loop"
    /\ sync.pos <= Len(sync.feed)
    /\ LET page == sync.feed[sync.pos]
           draft == PageDraft(page)
           shape == PageEvidence(page)
           evidence_list == create_evidence(shape, nextId)
           canonical_url == canonicalize_url(draft.canonical_url)
           existing_row == LookupExisting(canonical_url, draft.source_id)
           latest_hash == IF existing_row = <<>> THEN <<>>
                          ELSE LatestHash(existing_row[1].id)
           out == UpsertWrites(existing_row, latest_hash, draft, evidence_list,
                               sync.run_id, now + 1, nextId + Len(shape))
       IN  IF ~page.ok
             THEN /\ sync' = [sync EXCEPT !.pos = @ + 1, !.error_count = @ + 1]
                  /\ UNCHANGED <<articles, versions, evidence, nextId, lastOp>>
             ELSE /\ articles' = out.articles
                  /\ versions' = out.versions
                  /\ evidence' = out.evidence
                  /\ nextId' = nextId + Len(shape) + out.ids
                  /\ lastOp' = [op |-> "upsert_article", run_id |-> sync.run_id,
                                key |-> <<canonical_url, draft.source_id>>,
                                hash |-> <<_hash_article_fields(draft)>>,
                                supplied |-> Range(evidence_list),
                                article_id |-> out.article_id, created |-> out.created,
                                updated |-> out.updated, raised |-> out.raised,
                                summary |-> NoSummary]
                  /\ sync' = [sync EXCEPT
                        !.pos = @ + 1,
                        !.new_articles_count = @ + NewIncrement(out.created),
                        !.updated_articles_count = @ + UpdatedIncrement(out.created, out.updated),
                        !.error_count = IF out.raised # "" THEN @ + 1 ELSE @]
    /\ now' = now + 1
    /\ UNCHANGED <<notSync, fetch_log, merge_decisions, authors, run_log, conn,
                   robotsVars, fetcherVars>>

\* after the loop: the final status, update_run_log, return run_log
SyncEnd ==
    /\ sync.pc = "loop"
    /\ sync.pos > Len(sync.feed)
    /\ sync' = [sync EXCEPT !.pc = "idle",
                            !.runs = Append(@, RunSummary(sync, articles, versions))]
    /\ run_log' = {IF r.id = sync.run_id
                     THEN [r EXCEPT !.status = "COMPLETED", !.ended_at = now + 1]
                     ELSE r : r \in run_log}
    /\ now' = now + 1
    /\ UNCHANGED <<notSync, articles, versions, evidence, fetch_log, merge_decisions, authors,
                   nextId, lastOp, conn, robotsVars, fetcherVars>>

NextSync ==
    \/ \E run_id \in RunIds, feed \in Feeds : SyncStart(run_id, feed)
    \/ SyncUrl
    \/ SyncEnd

SpecSync == Init /\ [][NextSync]_vars

\* every page of the feed is fetched, parsed and extracted
AllOk(feed) == \A i \in 1..Len(feed) : feed[i].ok

\* the pages of the feed are distinct articles: no two canonical URLs agree
DistinctArticles(feed) ==
    \A i, j \in 1..Len(feed) :
        i # j => canonicalize_url(feed[i].url) # canonicalize_url(feed[j].url)

\* the positions where two feeds over the same URLs differ in content
ChangedPositions(f, g) == {i \in 1..Len(f) : f[i].content # g[i].content}

SameUrls(f, g) ==
    Len(f) = Len(g) /\ \A i \in 1..Len(f) : f[i].url = g[i].url

\* C30: at the end of a run new_articles_count is the number of URLs whose
\* store created an article and updated_articles_count the number whose store
\* wrote a new version of an existing article; a first sync of k distinct
\* articles gives new=k, updated=0; the same feed synced again under another
\* run id gives new=0, updated=0 and no new version row; synced again with
\* the content of one article changed it gives new=0, updated=1 and that
\* article reaches version 2.
C30_RunCounts ==
    \A k \in 1..Len(sync.runs) :
        LET h == sync.runs[k]
            added == h.versions_after \ h.versions_before
            first_sync == h.articles_before = {} /\ AllOk(h.feed) /\ DistinctArticles(h.feed)
        IN  /\ h.new_articles_count =
                  Cardinality({a.id : a \in h.articles_after} \ {a.id : a \in h.articles_before})
            /\ h.new_articles_count = Cardinality({v \in added : v.version = 1})
            /\ h.updated_articles_count = Cardinality({v \in added : v.version > 1})
            /\ first_sync =>
                  h.new_articles_count = Len(h.feed) /\ h.updated_articles_count = 0
            /\ \A j \in 1..(k - 1) :
                  LET first == sync.runs[j] IN
                  (/\ j = k - 1
                   /\ first.articles_before = {} /\ AllOk(first.feed)
                   /\ DistinctArticles(first.feed)
                   /\ SameUrls(first.feed, h.feed) /\ AllOk(h.feed)) =>
                      /\ h.run_id # first.run_id
                      /\ ChangedPositions(first.feed, h.feed) = {} =>
                            /\ h.new_articles_count = 0 /\ h.updated_articles_count = 0
                            /\ h.versions_after = h.versions_before
                      /\ \A p \in 1..Len(h.feed) :
                            ChangedPositions(first.feed, h.feed) = {p} =>
                              /\ h.new_articles_count = 0 /\ h.updated_articles_count = 1
                              /\ \E a \in h.articles_after :
                                    /\ a.canonical_url = canonicalize_url(h.feed[p].url)
                                    /\ a.source_id = SyncSource
                                    /\ a.version = 2
                                    /\ a.title = h.feed[p].content.title

\* a first sync of two articles, then the same feed with the content of one
\* article changed: new=2, updated=0, then new=0, updated=1
C30_Witness ==
    /\ Len(sync.runs) = 2
    /\ Len(sync.runs[1].feed) = 2
    /\ sync.runs[1].articles_before = {}
    /\ sync.runs[1].new_articles_count = 2 /\ sync.runs[1].updated_articles_count = 0
    /\ SameUrls(sync.runs[1].feed, sync.runs[2].feed)
    /\ Cardinality(ChangedPositions(sync.runs[1].feed, sync.runs[2].feed)) = 1
    /\ sync.runs[2].new_articles_count = 0 /\ sync.runs[2].updated_articles_count = 1
    /\ \E a \in articles : a.version = 2

\* a first sync of two articles and the same feed again under another run id:
\* new=0, updated=0 and the versions table is unchanged
C30_WitnessSame ==
    /\ Len(sync.runs) = 2
    /\ Len(sync.runs[1].feed) = 2
    /\ sync.runs[1].new_articles_count = 2
    /\ sync.runs[2].feed = sync.runs[1].feed
    /\ sync.runs[2].run_id # sync.runs[1].run_id
    /\ sync.runs[2].new_articles_count = 0 /\ sync.runs[2].updated_articles_count = 0
    /\ sync.runs[2].versions_after = sync.runs[1].versions_after

\* ---------------------------------------------------------------------------
\* Export: SQLiteExportStage.export over iter_articles_for_export
\* ---------------------------------------------------------------------------

\* A snippet the Article validator leaves at 1500 characters plus the ellipsis.
LongSnippet == "Snippet of 1501 chars"

\* len(snippet) of the snippets the export drafts carry
SnippetLength(snippet) == IF snippet = LongSnippet THEN 1501 ELSE StrLen(snippet)

ExportKeys == {<<U3, "rss:test">>, <<U2, "rss:other">>, <<U1, "rss:test">>}

ExportDrafts ==
    {[canonical_url |-> k[1], source_id |-> k[2], title |-> "Title V1",
      author_hint |-> "Jane Doe", published_at |-> "dt-0900", snippet |-> sn]
        : k \in ExportKeys, sn \in {"Snippet V1", LongSnippet}}

\* string order of the canonical URLs the drafts produce:
\* "https://example.com/new" sorts before "https://example.com/news/item?..."
UrlRank(canonical_url) == IF canonical_url.path = "/new" THEN 1 ELSE 2

\* string order of the source ids: "rss:other" sorts before "rss:test"
SourceRank(source_id) == IF source_id = "rss:other" THEN 1 ELSE 2

\* ORDER BY canonical_url, source_id
ExportBefore_BySource(a, b) ==
    \/ SourceRank(a.source_id) < SourceRank(b.source_id)
    \/ /\ SourceRank(a.source_id) = SourceRank(b.source_id)
       /\ UrlRank(a.canonical_url) < UrlRank(b.canonical_url)

ExportBefore(a, b) ==
    \/ UrlRank(a.canonical_url) < UrlRank(b.canonical_url)
    \/ /\ UrlRank(a.canonical_url) = UrlRank(b.canonical_url)
       /\ SourceRank(a.source_id) < SourceRank(b.source_id)

RECURSIVE ExportSorted(_)
ExportSorted(rows) ==
    IF rows = {} THEN <<>>
    ELSE LET first == CHOOSE a \in rows : \A b \in rows \ {a} : ExportBefore(a, b)
         IN  <<first>> \o ExportSorted(rows \ {first})

\* The rows of the SELECT, each loaded with _load_article.
iter_articles_for_export == ExportSorted(articles)

\* jsonschema.validate(payload, ARTICLE_SCHEMA): snippet of at most 1500
\* characters and version of at least 1.
SchemaValid(article) ==
    /\ article.version >= 1
    /\ SnippetLength(article.snippet) <= 1500

\* The lines in the file when the validation of article_id fails.
WrittenAtFailure_After(written, article_id) == Append(written, article_id)

WrittenAtFailure(written, article_id) == written

\* The loop of export: validate, then write; the first failure raises.
RECURSIVE ExportRows(_, _)
ExportRows(rows, written) ==
    IF rows = <<>> THEN [written |-> written, error |-> <<>>]
    ELSE IF ~SchemaValid(Head(rows))
         THEN [written |-> WrittenAtFailure(written, Head(rows).id),
               error |-> <<Head(rows).id>>]
         ELSE ExportRows(Tail(rows), Append(written, Head(rows).id))

\* SQLiteExportStage.export(output, run_id): the file is opened for writing,
\* so an earlier export's lines are gone.
SQLiteExport ==
    /\ LET rows == iter_articles_for_export
           out == ExportRows(rows, <<>>)
       IN  exp' = [called |-> TRUE, written |-> out.written, error |-> out.error,
                   rows |-> rows]
    /\ UNCHANGED <<notExp, dbVars, nextId, now, lastOp, conn, robotsVars, fetcherVars>>

\* The direct UPDATE of the integration test: one article's version set to 0.
CorruptVersion(article_id) ==
    /\ \E a \in articles : a.id = article_id /\ a.version # 0
    /\ articles' = {IF a.id = article_id THEN [a EXCEPT !.version = 0] ELSE a
                      : a \in articles}
    /\ UNCHANGED <<calcVars, versions, evidence, fetch_log, merge_decisions, authors,
                   run_log, nextId, now, lastOp, conn, robotsVars, fetcherVars>>

NextExport ==
    \/ CreateRunLog("run-1")
    \/ \E draft \in ExportDrafts, shape \in EvidenceShapes :
           UpsertArticle(draft, shape, "run-1")
    \/ \E a \in articles : CorruptVersion(a.id)
    \/ SQLiteExport

SpecExport == Init /\ [][NextExport]_vars

\* C31: export visits the articles in (canonical_url, source_id) order and
\* validates each before writing it: the file holds exactly the articles that
\* precede the first invalid one, in that order, the error names the first
\* invalid article, and without an invalid article every row is written and
\* there is no error.
C31_ExportFailFast ==
    exp.called =>
        /\ \A i, j \in DOMAIN exp.rows :
               i < j =>
                   \/ UrlRank(exp.rows[i].canonical_url) < UrlRank(exp.rows[j].canonical_url)
                   \/ /\ exp.rows[i].canonical_url = exp.rows[j].canonical_url
                      /\ SourceRank(exp.rows[i].source_id) < SourceRank(exp.rows[j].source_id)
        /\ IF \A i \in DOMAIN exp.rows : SchemaValid(exp.rows[i])
           THEN /\ exp.error = <<>>
                /\ exp.written = [i \in DOMAIN exp.rows |-> exp.rows[i].id]
           ELSE LET bad == CHOOSE i \in DOMAIN exp.rows :
                               /\ ~SchemaValid(exp.rows[i])
                               /\ \A j \in 1..(i - 1) : SchemaValid(exp.rows[j])
                IN  /\ exp.error = <<exp.rows[bad].id>>
                    /\ exp.written = [i \in 1..(bad - 1) |-> exp.rows[i].id]

\* An export of three articles whose second is invalid: one line written.
C31_Witness ==
    /\ exp.called
    /\ Len(exp.rows) = 3
    /\ Len(exp.written) = 1
    /\ exp.error = <<exp.rows[2].id>>
    /\ SchemaValid(exp.rows[3])

\* The test's case: a valid article, then one whose version was set to 0.
C31_WitnessVersion ==
    /\ exp.called
    /\ Len(exp.rows) = 2
    /\ exp.written = <<exp.rows[1].id>>
    /\ exp.rows[2].version = 0
    /\ exp.error = <<exp.rows[2].id>>

\* An export with no invalid article writes every row.
C31_WitnessAllValid ==
    /\ exp.called
    /\ Len(exp.rows) = 3
    /\ Len(exp.written) = 3
    /\ exp.error = <<>>

\* ---------------------------------------------------------------------------
\* RobotsTxtChecker.evaluate called from several threads
\* ---------------------------------------------------------------------------

MaxCheckerCalls == 2

CheckerThreads == {"w1", "w2"}

CheckerUrls == {u \in RobotsUrls : u.netloc # ""}

CheckerOutcomes ==
    {o \in RobotsOutcomes : o.via = "" /\ o.status_code \in {200, 404} /\ o.kind = "response"}

\* evaluate up to the cache check of _get_or_fetch: a fresh entry is
\* returned at once, otherwise the thread goes on to session.get
CheckCache(t, url) ==
    /\ rthr[t].pc = "idle"
    /\ rthr[t].calls < MaxCheckerCalls
    /\ LET domain == Lower(url.netloc)
           cached == robotsCache[domain]
       IN  IF CacheFresh(cached, clock)
           THEN rthr' = [rthr EXCEPT ![t] = [pc |-> "idle", url |-> <<url>>,
                                             calls |-> @.calls + 1, cache_hit |-> TRUE,
                                             entry |-> cached]]
           ELSE rthr' = [rthr EXCEPT ![t] = [pc |-> "fetching", url |-> <<url>>,
                                             calls |-> @.calls + 1, cache_hit |-> FALSE,
                                             entry |-> <<>>]]
    /\ UNCHANGED <<notRthr, dbVars, nextId, now, lastOp, conn, robotsVars, fetcherVars>>

\* entry = self._fetch_entry(robots_url): the request is sent and answered
FetchEntry(t, outcome) ==
    /\ rthr[t].pc = "fetching"
    /\ LET domain == Lower(rthr[t].url[1].netloc)
       IN  /\ robotsRequests' = [robotsRequests EXCEPT ![domain] = @ + 1]
           /\ rthr' = [rthr EXCEPT ![t].pc = "storing",
                                   ![t].entry = <<_fetch_entry(outcome, clock)>>]
    /\ UNCHANGED <<notRthr, dbVars, nextId, now, lastOp, conn, robotsCache, clock, lastEval,
                   fetcherVars>>

\* self._cache[domain] = entry; return entry, False
StoreEntry(t) ==
    /\ rthr[t].pc = "storing"
    /\ LET domain == Lower(rthr[t].url[1].netloc)
       IN  robotsCache' = [robotsCache EXCEPT ![domain] = rthr[t].entry]
    /\ rthr' = [rthr EXCEPT ![t].pc = "idle"]
    /\ UNCHANGED <<notRthr, dbVars, nextId, now, lastOp, conn, clock, robotsRequests, lastEval,
                   fetcherVars>>

NextCheckers ==
    \/ \E t \in CheckerThreads, u \in CheckerUrls : CheckCache(t, u)
    \/ \E t \in CheckerThreads, o \in CheckerOutcomes : FetchEntry(t, o)
    \/ \E t \in CheckerThreads : StoreEntry(t)

SpecCheckers == Init /\ [][NextCheckers]_vars

\* C32: while no entry expires (the clock stands still), at most one
\* robots.txt request is issued for a host, and two threads that have
\* finished evaluate for the same host hold the same entry.
C32_SingleWriter ==
    /\ \A d \in RobotsDomains : robotsRequests[d] <= 1
    /\ \A t1, t2 \in CheckerThreads :
           (/\ rthr[t1].pc = "idle" /\ rthr[t2].pc = "idle"
            /\ rthr[t1].url # <<>> /\ rthr[t2].url # <<>>
            /\ Lower(rthr[t1].url[1].netloc) = Lower(rthr[t2].url[1].netloc))
           => rthr[t1].entry = rthr[t2].entry

\* ---------------------------------------------------------------------------
\* fetch_url callers at request_slot, with a clock that sleeping advances
\* ---------------------------------------------------------------------------

MaxGateCalls == 1

GateThreads == {"f1", "f2"}

\* how _follow_redirects and the reading of the body can end
GateOutcomes ==
    {"200", "304", "REDIRECT_LIMIT", "TIMEOUT", "FETCH_ERROR", "BODY_TOO_LARGE", "ValueError"}

\* seconds a request takes
RequestSeconds == {0, 5}

NewGate(max_global_concurrency) ==
    /\ gate.max_global_concurrency = 0
    /\ gate' = [gate EXCEPT !.max_global_concurrency = max_global_concurrency,
                            !.value = max_global_concurrency]
    /\ UNCHANGED <<notGate, dbVars, nextId, now, lastOp, conn, robotsVars, fetcherVars>>

\* fetch_url reaches politeness.request_slot(hostname, delay_multiplier)
CallRequestSlot(t, domain, delay_multiplier) ==
    /\ gate.max_global_concurrency >= 1
    /\ gate.thr[t].pc = "idle"
    /\ gate.thr[t].calls < MaxGateCalls
    /\ gate' = [gate EXCEPT !.thr[t] = [pc |-> "acquiring", host |-> domain,
                                        m |-> delay_multiplier, wake |-> 0,
                                        calls |-> @.calls + 1]]
    /\ UNCHANGED <<notGate, dbVars, nextId, now, lastOp, conn, robotsVars, fetcherVars>>

\* self._semaphore.acquire() returns
SemaphoreAcquire(t) ==
    /\ gate.thr[t].pc = "acquiring"
    /\ gate.value > 0
    /\ gate' = [gate EXCEPT !.value = @ - 1, !.thr[t].pc = "waiting"]
    /\ UNCHANGED <<notGate, dbVars, nextId, now, lastOp, conn, robotsVars, fetcherVars>>

\* one pass of the loop of wait_for_domain, under self._lock
GateWaitForDomain(t) ==
    /\ gate.thr[t].pc = "waiting"
    /\ LET domain == gate.thr[t].host
           t_now == gate.clock
           na == IF gate.next_allowed[domain] = <<>> THEN t_now
                 ELSE gate.next_allowed[domain][1]
       IN  IF t_now >= na
           THEN gate' = [gate EXCEPT
                           !.next_allowed[domain] = <<NextAllowedAfter(t_now, gate.thr[t].m)>>,
                           !.thr[t].pc = "holding"]
           ELSE gate' = [gate EXCEPT !.thr[t].pc = "sleeping", !.thr[t].wake = na]
    /\ UNCHANGED <<notGate, dbVars, nextId, now, lastOp, conn, robotsVars, fetcherVars>>

\* self._sleep(wait_seconds): the clock is at least wake when it returns
GateSleep(t) ==
    /\ gate.thr[t].pc = "sleeping"
    /\ gate' = [gate EXCEPT !.clock = Max2(@, gate.thr[t].wake), !.thr[t].pc = "waiting"]
    /\ UNCHANGED <<notGate, dbVars, nextId, now, lastOp, conn, robotsVars, fetcherVars>>

SemaphoreAfter_SuccessOnly(value, outcome) ==
    IF outcome \in {"200", "304", "BODY_TOO_LARGE"} THEN value + 1 ELSE value

\* finally: self._semaphore.release(), however the body of the with block ended
SemaphoreAfter(value, outcome) == value + 1

\* _follow_redirects returns or raises, the slot is given back and fetch_url
\* returns its pair (or lets the ValueError through)
EndRequest(t, outcome, seconds) ==
    /\ gate.thr[t].pc = "holding"
    /\ gate' = [gate EXCEPT !.value = SemaphoreAfter(@, outcome),
                            !.clock = @ + seconds,
                            !.thr[t] = [pc |-> "idle", host |-> "", m |-> 0, wake |-> 0,
                                        calls |-> @.calls],
                            !.last_outcome = outcome]
    /\ UNCHANGED <<notGate, dbVars, nextId, now, lastOp, conn, robotsVars, fetcherVars>>

NextGate ==
    \/ \E c \in PolCaps : NewGate(c)
    \/ \E t \in GateThreads, h \in PolHosts, m \in PolMultipliers : CallRequestSlot(t, h, m)
    \/ \E t \in GateThreads : SemaphoreAcquire(t)
    \/ \E t \in GateThreads : GateWaitForDomain(t)
    \/ \E t \in GateThreads : GateSleep(t)
    \/ \E t \in GateThreads, o \in GateOutcomes, d \in RequestSeconds : EndRequest(t, o, d)

\* every thread that can run does run; a request ends
GateFairness ==
    \A t \in GateThreads :
        /\ WF_vars(SemaphoreAcquire(t))
        /\ WF_vars(GateWaitForDomain(t))
        /\ WF_vars(GateSleep(t))
        /\ WF_vars(\E o \in GateOutcomes, d \in RequestSeconds : EndRequest(t, o, d))

SpecGate == Init /\ [][NextGate]_vars /\ GateFairness

GateHolders == {t \in GateThreads : gate.thr[t].pc \in {"waiting", "sleeping", "holding"}}

\* C34: the slot is given back on every outcome: the free slots are the cap
\* minus the callers between acquire and release, so with no fetch in
\* progress all slots are free; and every caller that has called request_slot
\* is eventually granted.
C34_SlotAlwaysReleased ==
    /\ [](gate.value = gate.max_global_concurrency - Cardinality(GateHolders))
    /\ \A t \in GateThreads :
           (gate.thr[t].pc = "acquiring") ~> (gate.thr[t].pc = "holding")

\* a request ended in a timeout and all slots are free again
C34_Witness ==
    /\ gate.last_outcome = "TIMEOUT"
    /\ GateHolders = {}
    /\ gate.max_global_concurrency = 2
    /\ gate.value = 2

\* a caller was granted after it had to wait for the semaphore and to sleep
C34_WitnessSlept ==
    \E t \in GateThreads :
        /\ gate.thr[t].pc = "holding"
        /\ gate.thr[t].wake > 0
        /\ gate.max_global_concurrency = 1

\* ---------------------------------------------------------------------------
\* Pipeline.run under a run-wide cancellation signal
\* ---------------------------------------------------------------------------

\* The signal arrives while the run is in progress.  Pipeline.run has no
\* cancellation check and catches Exception only, so the KeyboardInterrupt
\* of the signal leaves run() at once: no status is assigned and
\* _persist_run_end is not called.
CancelRun ==
    /\ pipe.pc \in {"loop", "export"}
    /\ pipe' = [pipe EXCEPT !.pc = "cancelled"]
    /\ UNCHANGED <<calcVars, dbVars, nextId, now, lastOp, conn, robotsVars, polVars, fetchVars>>

NextCancel ==
    \/ NextRun
    \/ CancelRun

SpecCancel == Init /\ [][NextCancel]_vars

\* C35: a run that was cancelled while in progress takes no further URL and
\* ends with status CANCELLED, in the RunLog and in the stored run_log row.
C35_CancelledStatus ==
    /\ [](pipe.pc = "cancelled" =>
             /\ pipe.run_log.status = "CANCELLED"
             /\ pipe.run_store => pipe.saved_status = "CANCELLED")
    /\ [][pipe.pc = "cancelled" => pipe'.attempts = pipe.attempts]_vars

\* what the code does instead: the status of a run is never CANCELLED, and a
\* cancelled run stays RUNNING
C35_NeverCancelled ==
    /\ pipe.run_log.status # "CANCELLED"
    /\ pipe.saved_status # "CANCELLED"
    /\ pipe.pc = "cancelled" => pipe.run_log.status = "RUNNING"

\* ---------------------------------------------------------------------------
\* One URL of Pipeline.run from the fetched document to the store, 304 included
\* ---------------------------------------------------------------------------

\* FetchedDoc of fetch_url: a 200 document carries its body, a 304 document
\* has body_bytes = None (<<>>)
FetchedDocs ==
    {[status_code |-> 200, final_url |-> u, body_bytes |-> <<c>>]
        : u \in {U2, U3}, c \in Contents}
    \cup {[status_code |-> 304, final_url |-> u, body_bytes |-> <<>>] : u \in {U2, U3}}

\* if fetched.body_bytes is None: return ""; the text of a body otherwise
_decode_body_bytes(fetched) == fetched.body_bytes

\* HtmlParseStage.parse: the metadata found in the text; none in an empty text
ParseDoc(fetched) ==
    LET html_text == _decode_body_bytes(fetched)
    IN  IF html_text = <<>>
        THEN [canonical_url |-> fetched.final_url, title |-> NULL, author_names |-> NULL,
              date_published |-> NULL, text |-> NULL]
        ELSE [canonical_url |-> fetched.final_url, title |-> html_text[1].title,
              author_names |-> html_text[1].author_hint,
              date_published |-> html_text[1].published_at,
              text |-> html_text[1].snippet]

\* ArticleExtractStage.extract: the draft of the parsed fields
ExtractDraft(parsed) ==
    [canonical_url |-> parsed.canonical_url, source_id |-> SyncSource,
     title |-> parsed.title, author_hint |-> parsed.author_names,
     published_at |-> parsed.date_published, snippet |-> parsed.text]

\* ... and its evidence: one record per field that was found
ExtractEvidence(parsed, run_id) ==
    (IF parsed.title = NULL THEN <<>>
     ELSE << [claim_path |-> "/title", evidence_type |-> "meta_tag",
              extracted_text |-> parsed.title, run_id |-> run_id] >>)
    \o (IF parsed.author_names = NULL THEN <<>>
        ELSE << [claim_path |-> "/author_hint", evidence_type |-> "meta_tag",
                 extracted_text |-> parsed.author_names, run_id |-> run_id] >>)
    \o (IF parsed.date_published = NULL THEN <<>>
        ELSE << [claim_path |-> "/published_at", evidence_type |-> "meta_tag",
                 extracted_text |-> parsed.date_published, run_id |-> run_id] >>)

\* the body of the loop of Pipeline.run for a fetch result without error
\* code: parse, extract, store
StoreFetched(fetched, run_id) ==
    /\ now < MaxOps
    /\ RunExists(run_id)
    /\ LET parsed == ParseDoc(fetched)
           draft == ExtractDraft(parsed)
           shape == ExtractEvidence(parsed, run_id)
           evidence_list == create_evidence(shape, nextId)
           canonical_url == canonicalize_url(draft.canonical_url)
           existing_row == LookupExisting(canonical_url, draft.source_id)
           latest_hash == IF existing_row = <<>> THEN <<>>
                          ELSE LatestHash(existing_row[1].id)
           out == UpsertWrites(existing_row, latest_hash, draft, evidence_list,
                               run_id, now + 1, nextId + Len(shape))
       IN  /\ articles' = out.articles
           /\ versions' = out.versions
           /\ evidence' = out.evidence
           /\ nextId' = nextId + Len(shape) + out.ids
           /\ lastOp' = [op |-> "upsert_article", run_id |-> run_id,
                         key |-> <<canonical_url, draft.source_id>>,
                         hash |-> <<_hash_article_fields(draft)>>,
                         supplied |-> Range(evidence_list),
                         article_id |-> out.article_id, created |-> out.created,
                         updated |-> out.updated, raised |-> out.raised,
                         summary |-> NoSummary]
           /\ lastUrl' = [n |-> lastUrl.n + 1, status_code |-> fetched.status_code,
                          draft |-> <<draft>>]
    /\ now' = now + 1
    /\ UNCHANGED <<notLastUrl, fetch_log, merge_decisions, authors, run_log, conn,
                   robotsVars, fetcherVars>>

NextNotModified ==
    \/ \E run_id \in RunIds : CreateRunLog(run_id)
    \/ \E fetched \in FetchedDocs, run_id \in RunIds : StoreFetched(fetched, run_id)

SpecNotModified == Init /\ [][NextNotModified]_vars

\* C36: processing a URL whose fetch returned a 304 document keeps what is
\* stored: no version row is written and no article loses or changes its
\* title, author_hint, published_at or snippet.
C36_NotModifiedKeepsStored ==
    [][(lastUrl'.n = lastUrl.n + 1 /\ lastUrl'.status_code = 304) =>
          /\ versions' = versions
          /\ \A a \in articles :
                \E b \in articles' :
                    /\ b.id = a.id /\ b.version = a.version
                    /\ b.title = a.title /\ b.author_hint = a.author_hint
                    /\ b.published_at = a.published_at /\ b.snippet = a.snippet]_vars

\* the overwriting alone: a 304 document leaves every stored article with
\* its version and its fields
C36_StoredFieldsKept ==
    [][(lastUrl'.n = lastUrl.n + 1 /\ lastUrl'.status_code = 304) =>
          \A a \in articles :
              \E b \in articles' :
                  /\ b.id = a.id /\ b.version = a.version
                  /\ b.title = a.title /\ b.snippet = a.snippet]_vars

\* ---------------------------------------------------------------------------
\* The store after any sequence of upsert_article and rollback_run
\* ---------------------------------------------------------------------------

\* id, claim path and run of the evidence rows in a set
EvidenceKeys(rows) ==
    {[id |-> e.id, claim_path |-> e.claim_path, run_id |-> e.run_id] : e \in rows}

\* C37: every article has a version row, and its version, title,
\* author_hint, published_at, snippet and live evidence rows (ids, claim
\* paths, run_ids) are those of its highest-numbered version row; every live
\* evidence row carries the run_id of that version row.
C37_ArticleIsTopVersion ==
    \A a \in articles :
        /\ VersionRowsOf(versions, a.id) # {}
        /\ LET v == TopVersionRow(a.id)
           IN  /\ a.version = v.version
               /\ a.title = v.title_snapshot
               /\ a.author_hint = v.author_hint_snapshot
               /\ a.published_at = v.published_at_snapshot
               /\ a.snippet = v.snippet_snapshot
               /\ EvidenceKeys(EvidenceOf(evidence, a.id))
                    = EvidenceKeys(Range(v.evidence_snapshot))
               /\ \A e \in EvidenceOf(evidence, a.id) : e.run_id = v.run_id

\* a rollback took an article back to the version an earlier run wrote
C37_Witness ==
    /\ IsRollback(lastOp)
    /\ lastOp.summary.articles_reverted = 1
    /\ \E a \in articles :
          /\ a.version = 1
          /\ EvidenceOf(evidence, a.id) # {}
          /\ \A e \in EvidenceOf(evidence, a.id) : e.run_id # lastOp.run_id

\* the step is a call of rollback_run(run_id)
IsRollbackOf(run_id) ==
    now' = now + 1 /\ lastOp'.op = "rollback_run" /\ lastOp'.run_id = run_id

\* no table holds a row of the run
WroteNothing(run_id) ==
    \A table \in {fetch_log, evidence, versions, merge_decisions} :
        \A row \in table : row.run_id # run_id

\* C38: rollback_run(R) called right after rollback_run(R), or for a run
\* that has no row in any table, returns a summary of zeros and leaves
\* articles, evidence, versions, fetch logs and merge decisions as they are;
\* on the second call the run_log row of R stays CANCELLED with the same
\* ended_at; no run_log row is created for an R without one.
C38_RollbackIdempotent ==
    [][\A R \in RunIds :
        IsRollbackOf(R) =>
            /\ ((IsRollback(lastOp) /\ lastOp.run_id = R) \/ WroteNothing(R)) =>
                  /\ lastOp'.summary = NoSummary
                  /\ lastOp'.raised = ""
                  /\ UNCHANGED <<articles, evidence, versions, fetch_log, merge_decisions>>
            /\ (IsRollback(lastOp) /\ lastOp.run_id = R) =>
                  /\ run_log' = run_log
                  /\ \A r \in run_log : r.id = R => r.status = "CANCELLED"
            /\ {r.id : r \in run_log'} = {r.id : r \in run_log}]_vars

\* rollback_run was called again for a run whose article an earlier call removed
C38_Witness ==
    /\ IsRollback(lastOp)
    /\ lastOp.summary = NoSummary
    /\ articles = {} /\ versions = {} /\ nextId > 1
    /\ \E r \in run_log :
          /\ r.id = lastOp.run_id /\ r.status = "CANCELLED"
          /\ r.ended_at # NoTime /\ r.ended_at < now

\* rollback_run was called for a run id without a run_log row
C38_WitnessUnknown ==
    /\ IsRollback(lastOp)
    /\ \A r \in run_log : r.id # lastOp.run_id
    /\ articles # {}

\* ---------------------------------------------------------------------------
\* review apply runs and rollbacks
\* ---------------------------------------------------------------------------

NextReviewRollback ==
    \/ NextReview
    \/ \E run_id \in {r.id : r \in run_log} : RollbackRun(run_id)

SpecReviewRollback == Init /\ [][NextReviewRollback]_vars

\* the run of an apply was rolled back afterwards
RolledBack(h) == \E r \in run_log : r.id = h.run_id /\ r.status = "CANCELLED"

\* the ids an apply that ran to its end accepted or reported as duplicates
AppliedIds(h) == {StoredId(h.file[i]) : i \in ItemsDeciding(h, "accept")}

\* C39 as stated: every decision that an apply run which has not been rolled
\* back accepted or reported as a duplicate is present in merge_decisions.
C39_AppliedDecisionsPresent ==
    \A k \in 1..Len(review.history) :
        LET h == review.history[k]
        IN  (~RolledBack(h) /\ ~h.raised) =>
                \A id \in AppliedIds(h) : \E m \in merge_decisions : m.id = id

\* C39 amended: merge_decisions holds exactly the rows that the apply runs
\* which have not been rolled back inserted; a decision a run only reported
\* as a duplicate belongs to the run that inserted it and goes with it.
C39_InsertedDecisionsPresent ==
    merge_decisions =
        UNION {AddedRows(review.history[k]) :
                 k \in {j \in 1..Len(review.history) : ~RolledBack(review.history[j])}}

\* run-1 inserted one decision, run-2 reported it as a duplicate and inserted
\* another, run-1 was rolled back: the row of run-2 alone is left
C39_Witness ==
    /\ Len(review.history) = 2
    /\ RolledBack(review.history[1]) /\ ~RolledBack(review.history[2])
    /\ review.history[1].accepted = 1
    /\ review.history[2].accepted = 1 /\ review.history[2].duplicates = 1
    /\ Cardinality(merge_decisions) = 1
    /\ \A m \in merge_decisions : m.run_id = review.history[2].run_id


\* ---------------------------------------------------------------------
\* robots.txt lookups and the blocked address set (robots.py 142-172,
\* http.py 164-176, config.py 45-63)

\* the robots.txt request itself goes to the host of the fetched URL, which
\* fetch_url resolved and checked before it called evaluate
C40_RobotsOriginChecked ==
    lastFetch.robots_sent # <<>> => ~HostBlocked(lastFetch.robots_sent[1])

\* C40: the robots.txt lookup of a fetch never sends a request to a host
\* that resolves to a blocked address, the requests made while following
\* the redirects of the robots.txt URL included.
C40_RobotsLookupNeverBlockedIp ==
    \A i \in DOMAIN lastFetch.robots_sent :
        ~HostBlocked(lastFetch.robots_sent[i])

====
